---------------------------- MODULE Spec2Model ----------------------------
(***************************************************************************)
(* A model of the CPU ray-tracing renderer (teunvw14/renderer).             *)
(*                                                                         *)
(* The module holds several specifications over one set of variables:      *)
(*   Spec / FairSpec  the frame loop of main.rs: handle_input, then        *)
(*                    Renderer::render_world under its three dispatch      *)
(*                    strategies, with the worker threads interleaved;     *)
(*   FilterSpec       Renderer::apply_filters applied to sampled pixels;   *)
(*   CameraSpec       Camera::new, the two field-of-view setters,          *)
(*                    translate, look_at and set_view_direction;           *)
(*   RaySpec          Renderer::calculate_pixel_ray over the pixels of a   *)
(*                    camera;                                              *)
(*   ShadeSpec        Renderer::get_light_color, one light at a time;      *)
(*   BallSpec         the two ray-sphere routines on sampled balls;        *)
(*   TriangleSpec     meshes loaded from files, then the two ray-triangle  *)
(*                    routines;                                            *)
(*   ShadowSpec       Renderer::is_in_shadow on sampled occluders;         *)
(*   SceneSpec        Renderer::render_pixel on sampled scenes;            *)
(*   KeySpec          the Minus and Equals keys of handle_input pressed    *)
(*                    again and again on a camera;                         *)
(*   IterSpec         VertexObject::iter_faces and FacesIterator::next on  *)
(*                    sampled meshes;                                      *)
(*   SphereSpec       a Vec3 turned into SphericalCoordinates and back.    *)
(* Each specification leaves the variables of the others untouched.        *)
(***************************************************************************)
EXTENDS Integers, Sequences, FiniteSets, TLC

(***************************************************************************)
(* Bounds of the model.                                                    *)
(***************************************************************************)
MaxW == 2
MaxH == 2
MaxCpus == 3

VARIABLES
    \* ---- renderer.rs / main.rs: the frame loop and render_world ----
    multithreading_method,  \* Renderer.multithreading_method
    grayscale,              \* Renderer.grayscale
    resolution,             \* Camera.resolution: [w, h]
    cpu_count,              \* what num_cpus::get() returns on this machine
    frame_buffer,           \* pixels.get_frame(): byte index -> 0..255
    pc,                     \* where the frame loop is
    seq_i,                  \* None: the index of the sequential for loop
    rayon_done,             \* Rayon: the items of the parallel iterator already mapped
    pixels_per_thread,      \* Crossbeam: pixel_count / cpu_count
    chunk_pos,              \* Crossbeam: byte position of the chunks_mut iterator
    offset,                 \* Crossbeam: the running `offset` of the spawn loop
    threads,                \* Crossbeam: the spawned scoped threads, in spawn order
    write_count,            \* byte index -> how often this call wrote it
    render_count,           \* pixel index -> how often this call rendered it
    \* ---- renderer.rs: apply_filters applied to one pixel ----
    filter_in,              \* the RGBA8 handed to the first apply_filters call
    filter_gray,            \* Renderer.grayscale of the renderer that filters
    filter_rgba,            \* the pixel after filter_n applications
    filter_n,               \* how many times apply_filters has run on it
    \* ---- camera.rs: the camera and the last call made on it ----
    camera,                 \* the Camera: pos, field_of_view_horizontal, view_direction,
                            \* image_plane, resolution
    cam_state,              \* "none" before Camera::new has returned Ok, then "built"
    cam_call,               \* the last call on the camera: [op, arg, result, changed]
    \* ---- renderer.rs: calculate_pixel_ray for one pixel of the camera ----
    ray_index,              \* the pixel index i of the last call (-1: none yet)
    pixel_ray,              \* what the last call returned
    \* ---- renderer.rs: get_light_color for one hit ----
    material,               \* object.material() of the object that was hit
    lights,                 \* world.lights
    light_i,                \* how many lights the loop has gone through
    diffuse,                \* diffuse_r, diffuse_g, diffuse_b
    specular,               \* specular_r, specular_g, specular_b
    shade_pc,               \* "lights" while the loop runs, then "done"
    shade_out,              \* the RGBA8 get_light_color returned
    \* ---- renderer.rs: one call of an intersection or shading routine ----
    world,                  \* the World: balls, vertex_objects, lights, color
    geo_origin,             \* the ray's origin
    geo_direction,          \* the ray's direction
    t_allowed_range,        \* the RealRange handed to the routine
    geo_call,               \* which routine has been called ("none": none yet)
    geo_result,             \* what it returned
    \* ---- objects.rs: a FacesIterator over a mesh of world.vertex_objects ----
    faces_iterator,         \* None, or Some([index, vertices, face_indices]) once
                            \* iter_faces has been called
    next_results            \* what each next() on it returned, oldest first

renderVars == <<multithreading_method, grayscale, resolution, cpu_count, frame_buffer,
                pc, seq_i, rayon_done, pixels_per_thread, chunk_pos, offset, threads,
                write_count, render_count>>

filterVars == <<filter_in, filter_gray, filter_rgba, filter_n>>

cameraVars == <<camera, cam_state, cam_call>>

rayVars == <<ray_index, pixel_ray>>

shadeVars == <<material, lights, light_i, diffuse, specular, shade_pc, shade_out>>

geoVars == <<world, geo_origin, geo_direction, t_allowed_range, geo_call, geo_result>>

iterVars == <<faces_iterator, next_results>>

vars == <<renderVars, filterVars, cameraVars, rayVars, shadeVars, geoVars, iterVars>>

\* What the actions of one specification leave alone.
notRender == <<filterVars, cameraVars, rayVars, shadeVars, geoVars, iterVars>>
notFilter == <<renderVars, cameraVars, rayVars, shadeVars, geoVars, iterVars>>
notCamera == <<renderVars, filterVars, rayVars, shadeVars, geoVars, iterVars>>
notRay == <<renderVars, filterVars, cameraVars, shadeVars, geoVars, iterVars>>
notShade == <<renderVars, filterVars, cameraVars, rayVars, geoVars, iterVars>>
notGeo == <<renderVars, filterVars, cameraVars, rayVars, shadeVars, iterVars>>
notGeoIter == <<renderVars, filterVars, cameraVars, rayVars, shadeVars>>

(***************************************************************************)
(* u8 arithmetic.                                                          *)
(***************************************************************************)
U8(n) == n % 256

Min(a, b) == IF a <= b THEN a ELSE b

RGBA8(r, g, b, a) == [r |-> r, g |-> g, b |-> b, a |-> a]

\* rgba.as_slice(): the four bytes in r, g, b, a order.
as_slice(rgba) == <<rgba.r, rgba.g, rgba.b, rgba.a>>

(***************************************************************************)
(* Renderer::apply_filters: the optional grayscale filter.  u8 division    *)
(* truncates; the three thirds sum to at most 255, so the u8 sum does not  *)
(* overflow (U8 keeps the width all the same).                             *)
(***************************************************************************)
apply_filters(gray, rgba) ==
    IF gray
    THEN LET avg == U8((rgba.r \div 3) + (rgba.g \div 3) + (rgba.b \div 3))
         IN  [rgba EXCEPT !.r = avg, !.g = avg, !.b = avg]
    ELSE rgba

(***************************************************************************)
(* The intersect-and-shade part of render_pixel (renderer.rs 71-112) is a  *)
(* pure function of the pixel index, the camera and the world.  The        *)
(* dispatch specification keeps it as a fixed function of the pixel's      *)
(* column and row that gives every pixel of the bounded frames its own     *)
(* colour, so that a pixel rendered with a wrong index shows in the buffer.*)
(***************************************************************************)
shade_pixel(pixel_index, res) ==
    LET column == pixel_index % res.w
        row    == pixel_index \div res.w
    IN  RGBA8(U8(10 + 40 * column + 7 * row), U8(20 + 9 * column + 50 * row),
              U8(30 + 3 * column + 4 * row), 255)

\* The four bytes render_pixel copies into its `pixel` slice.
render_pixel(pixel_index, gray, res) ==
    as_slice(apply_filters(gray, shade_pixel(pixel_index, res)))

pixel_count_of(res) == res.w * res.h

\* frame_buffer.len(): resolution.w * resolution.h * 4 bytes (main.rs 54).
BufferLen(res) == 4 * pixel_count_of(res)

ZeroCounts(n) == [k \in 0 .. n - 1 |-> 0]

\* slice.len() of a buffer kept as a function on 0 .. len-1.
SliceLen(buf) == Cardinality(DOMAIN buf)

\* The number of items of chunks_exact_mut(4) over `len` bytes.
ChunksExact4(len) == len \div 4

\* The buffer after copy_from_slice of `bytes` into the 4-byte slice at byte `at`.
copy_from_slice(buf, at, bytes) ==
    [k \in DOMAIN buf |-> IF k >= at /\ k < at + 4 THEN bytes[k - at + 1] ELSE buf[k]]

\* Instrumentation of one render_pixel call: pixel `index` rendered into bytes at..at+3.
Bump(counts, lo, hi) ==
    [k \in DOMAIN counts |-> IF k >= lo /\ k <= hi THEN counts[k] + 1 ELSE counts[k]]

(***************************************************************************)
(* An f32 is kept as an exact rational <<numerator, denominator>> in       *)
(* lowest terms with a positive denominator, or as one of the three        *)
(* non-finite values: <<1, 0>> is +infinity, <<-1, 0>> is -infinity and    *)
(* <<0, 0>> is NaN.  The model follows the code's arithmetic without its   *)
(* rounding, and without the sign of zero (x / 0 is +infinity for x > 0).  *)
(***************************************************************************)
Abs(n) == IF n < 0 THEN -n ELSE n

Sign(n) == IF n < 0 THEN -1 ELSE IF n > 0 THEN 1 ELSE 0

RECURSIVE GCD(_, _)
GCD(a, b) == IF b = 0 THEN a ELSE GCD(b, a % b)

Rat(n, d) ==
    IF d = 0
    THEN <<Sign(n), 0>>
    ELSE LET g == GCD(Abs(n), Abs(d))
             sgn == IF d < 0 THEN -1 ELSE 1
         IN  <<(sgn * n) \div g, (sgn * d) \div g>>

R(n) == <<n, 1>>

NaN == <<0, 0>>
Infinity == <<1, 0>>

IsNaN(a) == a = NaN
IsFinite(a) == a[2] # 0

RNeg(a) == <<-a[1], a[2]>>

\* Sums over the least common denominator and products reduced crosswise keep the
\* intermediate integers small.
RAdd(a, b) ==
    IF IsFinite(a) /\ IsFinite(b)
    THEN LET g == GCD(a[2], b[2])
         IN  Rat(a[1] * (b[2] \div g) + b[1] * (a[2] \div g), (a[2] \div g) * b[2])
    ELSE IF IsNaN(a) \/ IsNaN(b) THEN NaN
    ELSE IF IsFinite(a) THEN b
    ELSE IF IsFinite(b) THEN a
    ELSE IF a = b THEN a ELSE NaN

RSub(a, b) == RAdd(a, RNeg(b))

RMul(a, b) ==
    IF IsFinite(a) /\ IsFinite(b)
    THEN LET x == Rat(a[1], b[2])
             y == Rat(b[1], a[2])
         IN  Rat(x[1] * y[1], x[2] * y[2])
    ELSE IF IsNaN(a) \/ IsNaN(b) THEN NaN
    ELSE <<Sign(a[1]) * Sign(b[1]), 0>>

\* 1.0 / b
RInv(b) ==
    IF IsFinite(b) THEN Rat(b[2], b[1])
    ELSE IF IsNaN(b) THEN NaN ELSE R(0)

RDiv(a, b) == RMul(a, RInv(b))

\* Every comparison with NaN is false.
RLt(a, b) ==
    /\ ~IsNaN(a)
    /\ ~IsNaN(b)
    /\ IF IsFinite(a) \/ IsFinite(b)
       THEN a[1] * b[2] < b[1] * a[2]
       ELSE a[1] < b[1]
RLe(a, b) == ~IsNaN(a) /\ ~IsNaN(b) /\ (a = b \/ RLt(a, b))
RGe(a, b) == RLe(b, a)
RGt(a, b) == RLt(b, a)

\* Newton's iteration for floor(sqrt(n)), downwards from x >= floor(sqrt(n)) > 0.
RECURSIVE ISqrtFrom(_, _)
ISqrtFrom(n, x) ==
    LET y == (x + (n \div x)) \div 2
    IN  IF y >= x THEN x ELSE ISqrtFrom(n, y)

\* The integer square root of a perfect square (no value on anything else: the
\* sampled inputs keep every length rational).
ISqrt(n) == CHOOSE k \in {IF n = 0 THEN 0 ELSE ISqrtFrom(n, n)} : k * k = n

\* f32::sqrt, exact on the squares of rationals; NaN on NaN and below zero.
RSqrt(a) ==
    IF IsNaN(a) \/ a[1] < 0 THEN NaN
    ELSE IF ~IsFinite(a) THEN a
    ELSE Rat(ISqrt(a[1]), ISqrt(a[2]))

(***************************************************************************)
(* vector.rs: Vec3 and its operators.                                      *)
(***************************************************************************)
vec3(x, y, z) == [x |-> x, y |-> y, z |-> z]

\* vec3 of integer coordinates.
ivec3(x, y, z) == vec3(R(x), R(y), R(z))

\* impl Mul for Vec3: the dot product.
VDot(a, b) == RAdd(RAdd(RMul(a.x, b.x), RMul(a.y, b.y)), RMul(a.z, b.z))

\* impl Mul<f32> for Vec3.
VScale(v, rhs) == vec3(RMul(rhs, v.x), RMul(rhs, v.y), RMul(rhs, v.z))

\* impl Add, impl Sub for Vec3.
VAdd(a, b) == vec3(RAdd(a.x, b.x), RAdd(a.y, b.y), RAdd(a.z, b.z))
VSub(a, b) == vec3(RSub(a.x, b.x), RSub(a.y, b.y), RSub(a.z, b.z))

\* Vec3::len: sqrt(x^2 + y^2 + z^2). Where a square would not fit the integers of
\* the rationals, the same value is worked out as m * sqrt((x/m)^2 + (y/m)^2 +
\* (z/m)^2) for the largest component m.
VLen(v) ==
    LET SumOfSquares(u) == RAdd(RAdd(RMul(u.x, u.x), RMul(u.y, u.y)), RMul(u.z, u.z))
        Fits(a) == Abs(a[1]) < 46341 /\ a[2] < 46341
        Mag(a) == IF a[1] < 0 THEN RNeg(a) ELSE a
        Larger(a, b) == IF RLt(a, b) THEN b ELSE a
    IN  IF Fits(v.x) /\ Fits(v.y) /\ Fits(v.z)
        THEN RSqrt(SumOfSquares(v))
        ELSE LET m == Larger(Mag(v.x), Larger(Mag(v.y), Mag(v.z)))
             IN  RMul(m, RSqrt(SumOfSquares(VScale(v, RInv(m)))))

\* Vec3::normalized and Vec3::normalize: self * (1.0 / self.len()).
normalized(v) == VScale(v, RDiv(R(1), VLen(v)))

\* Vec3::cross_product
cross_product(a, b) ==
    vec3(RSub(RMul(a.y, b.z), RMul(a.z, b.y)),
         RSub(RMul(a.z, b.x), RMul(a.x, b.z)),
         RSub(RMul(a.x, b.y), RMul(a.y, b.x)))

\* Vec3::set_length
set_length(v, length) == VScale(normalized(v), length)

(***************************************************************************)
(* An angle is kept as the point [cos, sin] of the unit circle it names.   *)
(***************************************************************************)
Angle(c, sn) == [cos |-> c, sin |-> sn]

NaNAngle == Angle(NaN, NaN)

\* f32::atan2(y, x) of finite arguments; atan2(0, 0) is 0, atan2 of a NaN is NaN.
Atan2(y, x) ==
    LET len == RSqrt(RAdd(RMul(x, x), RMul(y, y)))
    IN  IF IsNaN(len) THEN NaNAngle
        ELSE IF len = R(0) THEN Angle(R(1), R(0))
        ELSE Angle(RDiv(x, len), RDiv(y, len))

\* f32::asin(y): an angle in [-pi/2, pi/2], its cosine >= 0; NaN outside [-1, 1].
Asin(y) ==
    IF RLe(R(-1), y) /\ RLe(y, R(1))
    THEN Angle(RSqrt(RSub(R(1), RMul(y, y))), y)
    ELSE NaNAngle

\* Vec3::rotate_z_rad: with current_angle = atan2(y, x) and len_xy = |(x, y)|, the
\* code's len_xy * cos(current_angle + angle) is x cos(angle) - y sin(angle) and its
\* len_xy * sin(current_angle + angle) is x sin(angle) + y cos(angle).
rotate_z_rad(v, angle) ==
    vec3(RSub(RMul(v.x, angle.cos), RMul(v.y, angle.sin)),
         RAdd(RMul(v.x, angle.sin), RMul(v.y, angle.cos)),
         v.z)

\* Vec3::rotate_y_rad: the same in the xz-plane, from the positive x-axis.
rotate_y_rad(v, angle) ==
    vec3(RSub(RMul(v.x, angle.cos), RMul(v.z, angle.sin)),
         v.y,
         RAdd(RMul(v.x, angle.sin), RMul(v.z, angle.cos)))

(***************************************************************************)
(* camera.rs.  An angle in radians is kept as its rational multiple of pi  *)
(* (PI is 1); an angle in degrees as a rational number of degrees.         *)
(***************************************************************************)
PI == R(1)

\* PI / 180.0
DegToRad == RDiv(PI, R(180))

\* 180.0 / PI
RadToDeg == RDiv(R(180), PI)

\* tan of half a field of view fov (0 < fov < PI), as the rational
\* 3q / (2 (1 - q^2)) for fov = q pi: exact at 90 degrees, within 5% below 120.
TanHalf(fov) ==
    RDiv(RMul(R(3), fov), RMul(R(2), RSub(R(1), RMul(fov, fov))))

\* Camera::get_aspect_ratio
get_aspect_ratio(cam) == RDiv(R(cam.resolution.w), R(cam.resolution.h))

\* rotation_angle.cos() * len with len = |1 / rotation_angle.cos()|: 1 for a
\* rotation_angle = fov / 2 in (0, pi/2), NaN for a NaN.
CosHalfTimesLen(fov) == IF IsNaN(fov) THEN NaN ELSE R(1)

\* F applied to x, with x worked out once however often F uses it (a `let` of the
\* code binds a value, not an expression).
Bind(F(_), x) == CHOOSE y \in {F(v) : v \in {x}} : TRUE

\* Camera::get_image_plane with size_up = tan * aspect ratio.
get_image_plane_tall(cam) ==
    LET Corners(right, left, up) ==
            [top_left |-> VAdd(cam.pos, VAdd(left, up)),
             top_right |-> VAdd(cam.pos, VAdd(right, up)),
             bottom_right |-> VAdd(cam.pos, VSub(right, up)),
             bottom_left |-> VAdd(cam.pos, VSub(left, up))]
        Up(right, size_up) ==
            Bind(LAMBDA up : set_length(up, size_up),
                 cross_product(right, cam.view_direction))
        Rotated(l) ==
            Bind(LAMBDA rl :
                   Bind(LAMBDA up : Corners(rl.right, rl.left, up),
                        Up(rl.right, l.size_up)),
                 [right |-> Bind(LAMBDA r : rotate_y_rad(r, l.view_angle_xz),
                                 rotate_z_rad(l.right0, l.view_angle_y)),
                  left |-> Bind(LAMBDA r : rotate_y_rad(r, l.view_angle_xz),
                                rotate_z_rad(l.left0, l.view_angle_y))])
        tan == TanHalf(cam.field_of_view_horizontal)
        one == CosHalfTimesLen(cam.field_of_view_horizontal)
    IN  Bind(Rotated,
             [right0 |-> vec3(one, RMul(R(0), one), tan),
              left0 |-> vec3(one, RMul(R(0), one), RNeg(tan)),
              view_angle_y |-> Asin(cam.view_direction.y),
              view_angle_xz |-> Atan2(cam.view_direction.z, cam.view_direction.x),
              size_up |-> RMul(tan, get_aspect_ratio(cam))])

\* Camera::get_image_plane.  With rotation_angle = fov / 2 in (0, pi/2),
\* cos * len is 1 and sin * len is tan: right and left start as (1, 0, tan) and
\* (1, 0, -tan).
get_image_plane(cam) ==
    LET Corners(right, left, up) ==
            [top_left |-> VAdd(cam.pos, VAdd(left, up)),
             top_right |-> VAdd(cam.pos, VAdd(right, up)),
             bottom_right |-> VAdd(cam.pos, VSub(right, up)),
             bottom_left |-> VAdd(cam.pos, VSub(left, up))]
        Up(right, size_up) ==
            Bind(LAMBDA up : set_length(up, size_up),
                 cross_product(right, cam.view_direction))
        Rotated(l) ==
            Bind(LAMBDA rl :
                   Bind(LAMBDA up : Corners(rl.right, rl.left, up),
                        Up(rl.right, l.size_up)),
                 [right |-> Bind(LAMBDA r : rotate_y_rad(r, l.view_angle_xz),
                                 rotate_z_rad(l.right0, l.view_angle_y)),
                  left |-> Bind(LAMBDA r : rotate_y_rad(r, l.view_angle_xz),
                                rotate_z_rad(l.left0, l.view_angle_y))])
        tan == TanHalf(cam.field_of_view_horizontal)
        one == CosHalfTimesLen(cam.field_of_view_horizontal)
    IN  Bind(Rotated,
             [right0 |-> vec3(one, RMul(R(0), one), tan),
              left0 |-> vec3(one, RMul(R(0), one), RNeg(tan)),
              view_angle_y |-> Asin(cam.view_direction.y),
              view_angle_xz |-> Atan2(cam.view_direction.z, cam.view_direction.x),
              size_up |-> RDiv(tan, get_aspect_ratio(cam))])

\* ImagePlane::default()
DefaultImagePlane ==
    [top_left |-> ivec3(0, 0, 0), top_right |-> ivec3(0, 0, 0),
     bottom_right |-> ivec3(0, 0, 0), bottom_left |-> ivec3(0, 0, 0)]

\* The FOV test of Camera::new, in degrees (camera.rs 35).
InvalidFovDeg(fov_deg) == RGe(fov_deg, R(180)) \/ RLe(fov_deg, R(0))

\* The FOV test of set_field_of_view_horizontal, in radians (camera.rs 138).
InvalidFovRad(fov) == RGe(fov, PI) \/ RLe(fov, R(0))

\* The camera Camera::new builds when the FOV passes its test.
NewCamera(pos, view_direction, fov_deg, res) ==
    Bind(LAMBDA c : [c EXCEPT !.image_plane = get_image_plane(c)],
         [pos |-> pos,
          field_of_view_horizontal |-> RMul(fov_deg, DegToRad),
          view_direction |-> normalized(view_direction),
          image_plane |-> DefaultImagePlane,
          resolution |-> res])

\* The camera after an accepted set_field_of_view_horizontal(fov).
WithFov(cam, fov) ==
    Bind(LAMBDA c : [c EXCEPT !.image_plane = get_image_plane(c)],
         [cam EXCEPT !.field_of_view_horizontal = fov])

\* Camera::translate with the bottom-left corner left where it was.
translate_three_corners(cam, by) ==
    [cam EXCEPT !.pos = VAdd(@, by),
                !.image_plane.top_left = VAdd(@, by),
                !.image_plane.top_right = VAdd(@, by),
                !.image_plane.bottom_right = VAdd(@, by)]

\* Camera::translate: pos and the four corners each get `by` added.
translate(cam, by) ==
    [cam EXCEPT !.pos = VAdd(@, by),
                !.image_plane.top_left = VAdd(@, by),
                !.image_plane.top_right = VAdd(@, by),
                !.image_plane.bottom_right = VAdd(@, by),
                !.image_plane.bottom_left = VAdd(@, by)]

\* Camera::set_view_direction
set_view_direction(cam, direction) ==
    LET direction_normal == normalized(direction)
    IN  Bind(LAMBDA c : [c EXCEPT !.image_plane = get_image_plane(c)],
             [cam EXCEPT !.view_direction = direction_normal])

\* Camera::look_at with the direction taken from the target to the camera.
look_at_reversed(cam, at) ==
    LET direction == VSub(cam.pos, at)
    IN  set_view_direction(cam, direction)

\* Camera::look_at
look_at(cam, at) ==
    LET direction == VSub(at, cam.pos)
    IN  set_view_direction(cam, direction)

\* Camera::get_field_of_view_horizontal_deg
get_field_of_view_horizontal_deg(cam) == RMul(cam.field_of_view_horizontal, RadToDeg)

(***************************************************************************)
(* Renderer::calculate_pixel_ray                                           *)
(***************************************************************************)
\* calculate_pixel_ray with beta taken over the width instead of the height.
calculate_pixel_ray_beta_over_width(cam, i) ==
    LET alpha == RDiv(R(i % cam.resolution.w), R(cam.resolution.w))
        beta == RDiv(R(i \div cam.resolution.w), R(cam.resolution.w))
        hi == VAdd(VScale(cam.image_plane.top_left, RSub(R(1), alpha)),
                   VScale(cam.image_plane.top_right, alpha))
        lo == VAdd(VScale(cam.image_plane.bottom_left, RSub(R(1), alpha)),
                   VScale(cam.image_plane.bottom_right, alpha))
        pixel_vec == VAdd(VScale(hi, RSub(R(1), beta)), VScale(lo, beta))
    IN  VSub(pixel_vec, cam.pos)

calculate_pixel_ray(cam, i) ==
    LET alpha == RDiv(R(i % cam.resolution.w), R(cam.resolution.w))
        beta == RDiv(R(i \div cam.resolution.w), R(cam.resolution.h))
        hi == VAdd(VScale(cam.image_plane.top_left, RSub(R(1), alpha)),
                   VScale(cam.image_plane.top_right, alpha))
        lo == VAdd(VScale(cam.image_plane.bottom_left, RSub(R(1), alpha)),
                   VScale(cam.image_plane.bottom_right, alpha))
        pixel_vec == VAdd(VScale(hi, RSub(R(1), beta)), VScale(lo, beta))
    IN  VSub(pixel_vec, cam.pos)

(***************************************************************************)
(* The frame loop (main.rs 122-165): handle_input between frames, then     *)
(* render_world on RedrawRequested.                                        *)
(***************************************************************************)
Methods == {"None", "Rayon", "Crossbeam"}

\* The M key going round the other way: None to Rayon, Rayon to Crossbeam.
NextMethodBackwards(m) ==
    CASE m = "None" -> "Rayon"
      [] m = "Rayon" -> "Crossbeam"
      [] m = "Crossbeam" -> "None"

\* input.rs 96-111: the M key.
NextMethod(m) ==
    CASE m = "None" -> "Crossbeam"
      [] m = "Crossbeam" -> "Rayon"
      [] m = "Rayon" -> "None"

RenderInit ==
    /\ multithreading_method = "Rayon"
    /\ grayscale = FALSE
    /\ resolution \in [w : 1 .. MaxW, h : 1 .. MaxH]
    /\ cpu_count \in 1 .. MaxCpus
    /\ frame_buffer = ZeroCounts(BufferLen(resolution))
    /\ pc = "idle"
    /\ seq_i = 0
    /\ rayon_done = {}
    /\ pixels_per_thread = 0
    /\ chunk_pos = 0
    /\ offset = 0
    /\ threads = <<>>
    /\ write_count = ZeroCounts(BufferLen(resolution))
    /\ render_count = ZeroCounts(pixel_count_of(resolution))

KeyM ==
    /\ pc = "idle"
    /\ multithreading_method' = NextMethod(multithreading_method)
    /\ UNCHANGED <<grayscale, resolution, cpu_count, frame_buffer, pc, seq_i, rayon_done,
                   pixels_per_thread, chunk_pos, offset, threads, write_count, render_count>>
    /\ UNCHANGED notRender

KeyG ==
    /\ pc = "idle"
    /\ grayscale' = ~grayscale
    /\ UNCHANGED <<multithreading_method, resolution, cpu_count, frame_buffer, pc, seq_i,
                   rayon_done, pixels_per_thread, chunk_pos, offset, threads, write_count,
                   render_count>>
    /\ UNCHANGED notRender

\* What every call of render_world starts from.
CallStart ==
    /\ seq_i' = 0
    /\ rayon_done' = {}
    /\ chunk_pos' = 0
    /\ offset' = 0
    /\ threads' = <<>>
    /\ write_count' = ZeroCounts(BufferLen(resolution))
    /\ render_count' = ZeroCounts(pixel_count_of(resolution))

\* One render_pixel(index, pixel, ..) call with `pixel` the 4-byte slice at byte `at`.
RenderPixelAt(index, at) ==
    /\ frame_buffer' = copy_from_slice(frame_buffer, at,
                                       render_pixel(index, grayscale, resolution))
    /\ write_count' = Bump(write_count, at, at + 3)
    /\ render_count' = Bump(render_count, index, index)

(***************************************************************************)
(* MultithreadingMethod::None (renderer.rs 32-36).                         *)
(***************************************************************************)
StartNone ==
    /\ pc = "idle"
    /\ multithreading_method = "None"
    /\ pc' = "rendering"
    /\ CallStart
    /\ UNCHANGED <<multithreading_method, grayscale, resolution, cpu_count, frame_buffer,
                   pixels_per_thread>>
    /\ UNCHANGED notRender

SeqStep ==
    /\ pc = "rendering"
    /\ multithreading_method = "None"
    /\ seq_i < ChunksExact4(SliceLen(frame_buffer))
    /\ RenderPixelAt(seq_i, 4 * seq_i)
    /\ seq_i' = seq_i + 1
    /\ UNCHANGED <<multithreading_method, grayscale, resolution, cpu_count, pc, rayon_done,
                   pixels_per_thread, chunk_pos, offset, threads>>
    /\ UNCHANGED notRender

SeqReturn ==
    /\ pc = "rendering"
    /\ multithreading_method = "None"
    /\ seq_i >= ChunksExact4(SliceLen(frame_buffer))
    /\ pc' = "returned"
    /\ UNCHANGED <<multithreading_method, grayscale, resolution, cpu_count, frame_buffer,
                   seq_i, rayon_done, pixels_per_thread, chunk_pos, offset, threads,
                   write_count, render_count>>
    /\ UNCHANGED notRender

(***************************************************************************)
(* MultithreadingMethod::Rayon (renderer.rs 37-43): the pool's workers take *)
(* the items (i, pixel) of the enumerated parallel iterator in any order,   *)
(* each item once; collect() returns when every item is mapped.             *)
(***************************************************************************)
StartRayon ==
    /\ pc = "idle"
    /\ multithreading_method = "Rayon"
    /\ pc' = "rendering"
    /\ CallStart
    /\ UNCHANGED <<multithreading_method, grayscale, resolution, cpu_count, frame_buffer,
                   pixels_per_thread>>
    /\ UNCHANGED notRender

RayonStep ==
    /\ pc = "rendering"
    /\ multithreading_method = "Rayon"
    /\ \E i \in 0 .. ChunksExact4(SliceLen(frame_buffer)) - 1 :
          /\ i \notin rayon_done
          /\ RenderPixelAt(i, 4 * i)
          /\ rayon_done' = rayon_done \cup {i}
    /\ UNCHANGED <<multithreading_method, grayscale, resolution, cpu_count, pc, seq_i,
                   pixels_per_thread, chunk_pos, offset, threads>>
    /\ UNCHANGED notRender

RayonReturn ==
    /\ pc = "rendering"
    /\ multithreading_method = "Rayon"
    /\ rayon_done = 0 .. ChunksExact4(SliceLen(frame_buffer)) - 1
    /\ pc' = "returned"
    /\ UNCHANGED <<multithreading_method, grayscale, resolution, cpu_count, frame_buffer,
                   seq_i, rayon_done, pixels_per_thread, chunk_pos, offset, threads,
                   write_count, render_count>>
    /\ UNCHANGED notRender

(***************************************************************************)
(* MultithreadingMethod::Crossbeam (renderer.rs 44-66).                    *)
(***************************************************************************)
\* renderer.rs 47-49.
PixelsPerThread(len, cpus) == (len \div 4) \div cpus

\* The length of the chunk chunks_mut(size) yields at byte `pos` of `len` bytes.
ChunkLenAt(len, pos, size) == Min(size, len - pos)

\* `offset += chunk_size` (renderer.rs 62).
NextOffset(off, chunk_size) == off + chunk_size

\* `let index_offset = i + offset` (renderer.rs 58).
IndexOffset(i, off) == i + off

\* Entering the branch: cpu_count, pixel_count, pixels_per_thread, then the scope.
StartCrossbeam ==
    /\ pc = "idle"
    /\ multithreading_method = "Crossbeam"
    /\ pixels_per_thread' = PixelsPerThread(SliceLen(frame_buffer), cpu_count)
    /\ pc' = "rendering"
    /\ CallStart
    /\ UNCHANGED <<multithreading_method, grayscale, resolution, cpu_count, frame_buffer>>
    /\ UNCHANGED notRender

\* slice::chunks_mut asserts chunk_size != 0: with pixels_per_thread = 0 the scope's
\* closure panics before any thread is spawned, and render_world's unwrap() of the
\* scope's result panics in turn.  main.rs catches nothing: the process ends.
CrossbeamChunkPanic ==
    /\ pc = "rendering"
    /\ multithreading_method = "Crossbeam"
    /\ 4 * pixels_per_thread = 0
    /\ pc' = "panicked"
    /\ UNCHANGED <<multithreading_method, grayscale, resolution, cpu_count, frame_buffer,
                   seq_i, rayon_done, pixels_per_thread, chunk_pos, offset, threads,
                   write_count, render_count>>
    /\ UNCHANGED notRender

\* One iteration of `for chunk in frame_buffer.chunks_mut(4 * pixels_per_thread)`:
\* the thread is spawned with the current offset moved into it.
CrossbeamSpawn ==
    /\ pc = "rendering"
    /\ multithreading_method = "Crossbeam"
    /\ 4 * pixels_per_thread # 0
    /\ chunk_pos < SliceLen(frame_buffer)
    /\ LET len == ChunkLenAt(SliceLen(frame_buffer), chunk_pos, 4 * pixels_per_thread)
           chunk_size == len \div 4
       IN  /\ threads' = Append(threads, [lo |-> chunk_pos, len |-> len,
                                          offset |-> offset, i |-> 0])
           /\ offset' = NextOffset(offset, chunk_size)
           /\ chunk_pos' = chunk_pos + len
    /\ UNCHANGED <<multithreading_method, grayscale, resolution, cpu_count, frame_buffer,
                   pc, seq_i, rayon_done, pixels_per_thread, write_count, render_count>>
    /\ UNCHANGED notRender

\* One iteration of a spawned thread's loop over chunk.chunks_exact_mut(4).
CrossbeamWorkerStep ==
    /\ pc = "rendering"
    /\ multithreading_method = "Crossbeam"
    /\ \E t \in 1 .. Len(threads) :
          /\ threads[t].i < ChunksExact4(threads[t].len)
          /\ RenderPixelAt(IndexOffset(threads[t].i, threads[t].offset),
                           threads[t].lo + 4 * threads[t].i)
          /\ threads' = [threads EXCEPT ![t].i = @ + 1]
    /\ UNCHANGED <<multithreading_method, grayscale, resolution, cpu_count, pc, seq_i,
                   rayon_done, pixels_per_thread, chunk_pos, offset>>
    /\ UNCHANGED notRender

ThreadFinished(th) == th.i >= ChunksExact4(th.len)

\* The closure has spawned every chunk; crossbeam::scope joins every thread it
\* spawned before it returns Ok, and render_world returns.
CrossbeamJoin ==
    /\ pc = "rendering"
    /\ multithreading_method = "Crossbeam"
    /\ 4 * pixels_per_thread # 0
    /\ chunk_pos >= SliceLen(frame_buffer)
    /\ \A t \in 1 .. Len(threads) : ThreadFinished(threads[t])
    /\ pc' = "returned"
    /\ UNCHANGED <<multithreading_method, grayscale, resolution, cpu_count, frame_buffer,
                   seq_i, rayon_done, pixels_per_thread, chunk_pos, offset, threads,
                   write_count, render_count>>
    /\ UNCHANGED notRender

\* pixels.render() and the end of the event-loop iteration (main.rs 152-164).
FrameDone ==
    /\ pc = "returned"
    /\ pc' = "idle"
    /\ UNCHANGED <<multithreading_method, grayscale, resolution, cpu_count, frame_buffer,
                   seq_i, rayon_done, pixels_per_thread, chunk_pos, offset, threads,
                   write_count, render_count>>
    /\ UNCHANGED notRender

\* The steps of a render_world call in progress.
RenderStep ==
    \/ SeqStep \/ SeqReturn
    \/ RayonStep \/ RayonReturn
    \/ CrossbeamChunkPanic \/ CrossbeamSpawn \/ CrossbeamWorkerStep \/ CrossbeamJoin

RenderNext ==
    \/ KeyM \/ KeyG
    \/ StartNone \/ StartRayon \/ StartCrossbeam
    \/ RenderStep
    \/ FrameDone

(***************************************************************************)
(* apply_filters on one pixel: the pixel is drawn from the sampled RGBA8   *)
(* values and the filter is applied to it again and again.                 *)
(***************************************************************************)
MaxApply == 2

\* Channel values around the multiples of 3 and at both ends of u8.
ChannelSamples == {0, 1, 2, 3, 4, 5, 127, 128, 253, 254, 255}

FilterParked ==
    /\ filter_in = RGBA8(0, 0, 0, 255)
    /\ filter_gray = FALSE
    /\ filter_rgba = RGBA8(0, 0, 0, 255)
    /\ filter_n = 0

FilterInit ==
    /\ filter_in \in [r : ChannelSamples, g : ChannelSamples, b : ChannelSamples, a : {255}]
    /\ filter_gray \in BOOLEAN
    /\ filter_rgba = filter_in
    /\ filter_n = 0

\* self.apply_filters(&mut rgba)
ApplyFilters ==
    /\ filter_n < MaxApply
    /\ filter_rgba' = apply_filters(filter_gray, filter_rgba)
    /\ filter_n' = filter_n + 1
    /\ UNCHANGED <<filter_in, filter_gray>>
    /\ UNCHANGED notFilter

(***************************************************************************)
(* The camera: Camera::new and the two FOV setters, with sampled arguments. *)
(***************************************************************************)
\* main.rs 100-103 builds the camera at (0, 2.5, 5) looking down -z.
CamPositions == {vec3(R(0), Rat(5, 2), R(5)), ivec3(1, 0, -2)}

\* View directions handed to Camera::new (not unit length: new normalizes them).
CamDirections == {ivec3(0, 0, -1), ivec3(12, 15, 16)}

\* FOV arguments in degrees: outside (0, 180), on both ends, inside, and f32::NAN.
FovDegSamples == {R(-90), R(0), R(60), R(90), R(180), R(270), NaN}

\* FOV arguments in radians, as multiples of pi: outside (0, pi), on both ends,
\* inside, and f32::NAN.
FovRadSamples == {Rat(-1, 2), R(0), Rat(3, 4), PI, Rat(3, 2), NaN}

\* Camera resolutions: a 1x1 frame and the 4:3 shape of main.rs's 800x600.
CamResolutions == {[w |-> 1, h |-> 1], [w |-> 4, h |-> 3]}

\* The resolutions of the frames whose pixels are enumerated.
Resolutions == [w : 1 .. MaxW, h : 1 .. MaxH]

NoCamera ==
    [pos |-> ivec3(0, 0, 0), field_of_view_horizontal |-> R(0),
     view_direction |-> ivec3(0, 0, 0), image_plane |-> DefaultImagePlane,
     resolution |-> [w |-> 1, h |-> 1]]

\* A call on the camera: its FOV argument, its result, and whether it changed the camera.
Call(op, arg, result, changed) ==
    [op |-> op, arg |-> arg, result |-> result, changed |-> changed]

CameraParked ==
    /\ camera = NoCamera
    /\ cam_state = "none"
    /\ cam_call = Call("none", R(0), "Ok", FALSE)

CameraInit == CameraParked

\* Camera::new(pos, view_direction, field_of_view_horizontal, resolution)
CameraNew ==
    /\ cam_state = "none"
    /\ \E pos \in CamPositions, dir \in CamDirections, fov_deg \in FovDegSamples,
          res \in CamResolutions :
          IF InvalidFovDeg(fov_deg)
          THEN /\ cam_call' = Call("new", fov_deg, "InvalidFOV", FALSE)
               /\ UNCHANGED <<camera, cam_state>>
          ELSE /\ camera' = NewCamera(pos, dir, fov_deg, res)
               /\ cam_state' = "built"
               /\ cam_call' = Call("new", fov_deg, "Ok", TRUE)
    /\ UNCHANGED notCamera

\* Camera::set_field_of_view_horizontal applied to cam: <<the camera, the result>>.
set_field_of_view_horizontal(cam, fov) ==
    IF InvalidFovRad(fov)
    THEN <<cam, "InvalidFOV">>
    ELSE <<WithFov(cam, fov), "Ok">>

\* Camera::set_field_of_view_horizontal_deg applied to cam.
set_field_of_view_horizontal_deg(cam, fov_deg) ==
    LET angle_radians == RMul(fov_deg, DegToRad)
    IN  set_field_of_view_horizontal(cam, angle_radians)

SetFieldOfViewHorizontal ==
    /\ cam_state = "built"
    /\ \E fov \in FovRadSamples :
          \E res \in {set_field_of_view_horizontal(camera, fov)} :
              /\ camera' = res[1]
              /\ cam_call' = Call("set_rad", fov, res[2], res[1] # camera)
    /\ UNCHANGED cam_state
    /\ UNCHANGED notCamera

SetFieldOfViewHorizontalDeg ==
    /\ cam_state = "built"
    /\ \E fov_deg \in FovDegSamples :
          \E res \in {set_field_of_view_horizontal_deg(camera, fov_deg)} :
              /\ camera' = res[1]
              /\ cam_call' = Call("set_deg", fov_deg, res[2], res[1] # camera)
    /\ UNCHANGED cam_state
    /\ UNCHANGED notCamera

\* The Minus branch of handle_input with the FOV compared with 0 instead of 1.
key_minus_above_zero(cam) ==
    LET deg == get_field_of_view_horizontal_deg(cam)
    IN  IF RGt(deg, R(0))
        THEN set_field_of_view_horizontal_deg(cam, RSub(deg, R(1)))
        ELSE <<cam, "Skipped">>

\* The Minus branch of handle_input (input.rs 41-49): <<the camera, what the setter
\* returned>>, or "Skipped" when the setter is not called.
key_minus(cam) ==
    LET deg == get_field_of_view_horizontal_deg(cam)
    IN  IF RGt(deg, R(1))
        THEN set_field_of_view_horizontal_deg(cam, RSub(deg, R(1)))
        ELSE <<cam, "Skipped">>

\* The Equals branch of handle_input (input.rs 50-58).
key_equals(cam) ==
    LET deg == get_field_of_view_horizontal_deg(cam)
    IN  IF RLt(deg, R(179))
        THEN set_field_of_view_horizontal_deg(cam, RAdd(deg, R(1)))
        ELSE <<cam, "Skipped">>

\* FOVs in degrees of the cameras the keys are pressed on: at and next to the two
\* thresholds, half a degree off the whole numbers, and in the middle.
KeyFovDegSamples == {Rat(1, 2), R(1), R(2), R(90), R(178), R(179), Rat(359, 2)}

KeyInit ==
    /\ cam_state = "built"
    /\ \E fov_deg \in KeyFovDegSamples :
          camera = NewCamera(ivec3(0, 0, 5), ivec3(0, 0, -1), fov_deg, [w |-> 4, h |-> 3])
    /\ cam_call = Call("new", R(0), "Ok", TRUE)

\* handle_input with Minus pressed; the unwrap() of an Err ends the program.
KeyMinus ==
    /\ cam_state = "built"
    /\ \E res \in {key_minus(camera)} :
          /\ camera' = res[1]
          /\ cam_state' = IF res[2] = "InvalidFOV" THEN "panicked" ELSE "built"
          /\ cam_call' = Call("minus", get_field_of_view_horizontal_deg(camera), res[2],
                              res[1] # camera)
    /\ UNCHANGED notCamera

\* handle_input with Equals pressed.
KeyEquals ==
    /\ cam_state = "built"
    /\ \E res \in {key_equals(camera)} :
          /\ camera' = res[1]
          /\ cam_state' = IF res[2] = "InvalidFOV" THEN "panicked" ELSE "built"
          /\ cam_call' = Call("equals", get_field_of_view_horizontal_deg(camera), res[2],
                              res[1] # camera)
    /\ UNCHANGED notCamera

\* How far along x the sampled translations may take the camera from x = 0.
MaxShift == 1

\* Offsets handed to translate.
TranslateSamples == {vec3(R(1), R(2), Rat(-1, 2)), vec3(R(-1), R(-2), Rat(1, 2))}

\* Directions handed to set_view_direction, and target - pos of the targets handed
\* to look_at: the sampled directions, one straight up, and the zero vector.
DirectionSamples == CamDirections \cup {ivec3(0, 3, 0), ivec3(0, 0, 0)}

\* camera.translate(by)
Translate ==
    /\ cam_state = "built"
    /\ \E by \in TranslateSamples :
          /\ RLe(R(-MaxShift), RAdd(camera.pos.x, by.x))
          /\ RLe(RAdd(camera.pos.x, by.x), R(MaxShift))
          /\ camera' = translate(camera, by)
          /\ cam_call' = Call("translate", by, "Ok", TRUE)
    /\ UNCHANGED cam_state
    /\ UNCHANGED notCamera

\* camera.look_at(at)
LookAt ==
    /\ cam_state = "built"
    /\ \E d \in DirectionSamples :
          \E at \in {VAdd(camera.pos, d)} :
             \E after \in {look_at(camera, at)} :
                /\ camera' = after
                /\ cam_call' = Call("look_at", at, "Ok", after # camera)
    /\ UNCHANGED cam_state
    /\ UNCHANGED notCamera

\* camera.set_view_direction(direction)
SetViewDirection ==
    /\ cam_state = "built"
    /\ \E direction \in DirectionSamples :
          \E after \in {set_view_direction(camera, direction)} :
              /\ camera' = after
              /\ cam_call' = Call("set_view_direction", direction, "Ok", after # camera)
    /\ UNCHANGED cam_state
    /\ UNCHANGED notCamera

(***************************************************************************)
(* calculate_pixel_ray on the pixels of a camera Camera::new has built.    *)
(***************************************************************************)
\* FOVs Camera::new accepts.
ValidFovDegSamples == {f \in FovDegSamples : ~InvalidFovDeg(f)}

RayParked ==
    /\ ray_index = -1
    /\ pixel_ray = ivec3(0, 0, 0)

RayCameraInit ==
    /\ camera \in {NewCamera(pos, dir, fov_deg, res) :
                      pos \in CamPositions, dir \in CamDirections,
                      fov_deg \in ValidFovDegSamples, res \in Resolutions}
    /\ cam_state = "built"
    /\ cam_call = Call("new", R(90), "Ok", TRUE)

\* Self::calculate_pixel_ray(camera, pixel_index), for a pixel of the frame.
CalculatePixelRay ==
    /\ \E i \in 0 .. camera.resolution.w * camera.resolution.h - 1 :
          /\ ray_index' = i
          /\ pixel_ray' = calculate_pixel_ray(camera, i)
    /\ UNCHANGED notRay

(***************************************************************************)
(* get_light_color (renderer.rs 429-504) for one hit.  The material of the *)
(* object and the lights of the world are drawn at the start; what the     *)
(* geometry of the scene gives for each light (the shadow test, the two    *)
(* dot products, the squared distance) is drawn when the loop reaches it.  *)
(***************************************************************************)
MaxLights == 2

\* `x as usize` for an f32: truncation toward zero, 0 for NaN and below zero.  (An
\* infinite x saturates at usize::MAX; the sampled values stay finite.)
AsUsize(x) ==
    CASE IsNaN(x) -> 0
      [] x = RNeg(Infinity) -> 0
      [] IsFinite(x) /\ x[1] < 0 -> 0
      [] IsFinite(x) /\ x[1] >= 0 -> x[1] \div x[2]

\* f32::powf for a whole exponent n >= 0.
RECURSIVE powf(_, _)
powf(x, n) == IF n = 0 THEN R(1) ELSE RMul(x, powf(x, n - 1))

LightIntensity(r, g, b) == [r |-> R(r), g |-> R(g), b |-> R(b)]

\* Materials: ambient colours with remainders 0, 1 and 2 modulo 3.
MaterialSamples ==
    [ambient_constant : {RGBA8(0, 0, 0, 255), RGBA8(100, 50, 255, 255)},
     diffuse_constant : {R(1), R(3)},
     specular_constant : {R(1)},
     shine : {1, 5}]

\* Lights: the light of main.rs 78-85 and a brighter, coloured one.
LightSamples ==
    {[diffuse_intensity |-> LightIntensity(120, 120, 120),
      specular_intensity |-> LightIntensity(120, 120, 120)],
     [diffuse_intensity |-> LightIntensity(1000, 10, 1),
      specular_intensity |-> LightIntensity(1000, 1000, 1000)]}

DotProductSamples == {Rat(-1, 2), R(0), Rat(1, 2), R(1)}

DistanceSquaredSamples == {R(1), R(9)}

NoColor == RGBA8(0, 0, 0, 0)

Zero3 == [r |-> 0, g |-> 0, b |-> 0]

ShadeParked ==
    /\ material = [ambient_constant |-> RGBA8(0, 0, 0, 255), diffuse_constant |-> R(1),
                   specular_constant |-> R(1), shine |-> 1]
    /\ lights = <<>>
    /\ light_i = 0
    /\ diffuse = Zero3
    /\ specular = Zero3
    /\ shade_pc = "parked"
    /\ shade_out = NoColor

\* renderer.rs 437-449: the accumulators start at 0.
ShadeInit ==
    /\ material \in MaterialSamples
    /\ lights \in UNION {[1 .. n -> LightSamples] : n \in 0 .. MaxLights}
    /\ light_i = 0
    /\ diffuse = Zero3
    /\ specular = Zero3
    /\ shade_pc = "lights"
    /\ shade_out = NoColor

\* renderer.rs 459-470: what one light adds to diffuse_r, diffuse_g, diffuse_b.
DiffuseTerms(mat, light, dot_product, d_sq) ==
    LET term(intensity) ==
            AsUsize(RDiv(RMul(RMul(dot_product, mat.diffuse_constant), intensity), d_sq))
    IN  [r |-> term(light.diffuse_intensity.r),
         g |-> term(light.diffuse_intensity.g),
         b |-> term(light.diffuse_intensity.b)]

DiffuseOf(light, dot_product, d_sq) == DiffuseTerms(material, light, dot_product, d_sq)

\* renderer.rs 477-490: what one light adds to specular_r, specular_g, specular_b.
SpecularTerms(mat, light, dot_product_view, d_sq) ==
    LET specular_factor == powf(dot_product_view, mat.shine)
        term(intensity) ==
            AsUsize(RDiv(RMul(RMul(intensity, mat.specular_constant), specular_factor),
                         d_sq))
    IN  IF RGe(dot_product_view, R(0))
        THEN [r |-> term(light.specular_intensity.r),
              g |-> term(light.specular_intensity.g),
              b |-> term(light.specular_intensity.b)]
        ELSE Zero3

SpecularOf(light, dot_product_view, d_sq) ==
    SpecularTerms(material, light, dot_product_view, d_sq)

Add3(a, b) == [r |-> a.r + b.r, g |-> a.g + b.g, b |-> a.b + b.b]

\* One turn of `for light in &world.lights` (renderer.rs 451-494).
ShadeLight ==
    /\ shade_pc = "lights"
    /\ light_i < Len(lights)
    /\ \E in_shadow \in BOOLEAN, dot_product \in DotProductSamples,
          d_sq \in DistanceSquaredSamples, dot_product_view \in DotProductSamples :
          LET light == lights[light_i + 1]
          IN  IF ~in_shadow /\ RGt(dot_product, R(0))
              THEN /\ diffuse' = Add3(diffuse, DiffuseOf(light, dot_product, d_sq))
                   /\ specular' = Add3(specular, SpecularOf(light, dot_product_view, d_sq))
              ELSE UNCHANGED <<diffuse, specular>>
    /\ light_i' = light_i + 1
    /\ UNCHANGED <<material, lights, shade_pc, shade_out>>
    /\ UNCHANGED notShade

\* renderer.rs 496-503: the three sums are combined, clamped and returned.
CombineChannel(ambient, diffuse_c, specular_c) ==
    Min((ambient \div 3) + (diffuse_c \div 3) + (specular_c \div 3), 255)

ShadeFinish ==
    /\ shade_pc = "lights"
    /\ light_i >= Len(lights)
    /\ shade_out' = RGBA8(CombineChannel(material.ambient_constant.r, diffuse.r, specular.r),
                          CombineChannel(material.ambient_constant.g, diffuse.g, specular.g),
                          CombineChannel(material.ambient_constant.b, diffuse.b, specular.b),
                          255)
    /\ shade_pc' = "done"
    /\ UNCHANGED <<material, lights, light_i, diffuse, specular>>
    /\ UNCHANGED notShade

(***************************************************************************)
(* util.rs: RealRange.                                                     *)
(***************************************************************************)
All == [kind |-> "All"]
Closed(a, b) == [kind |-> "Closed", a |-> a, b |-> b]
Open(a, b) == [kind |-> "Open", a |-> a, b |-> b]
HalfOpenR(a, b) == [kind |-> "HalfOpenR", a |-> a, b |-> b]
HalfOpenL(a, b) == [kind |-> "HalfOpenL", a |-> a, b |-> b]
SmallerThan(a) == [kind |-> "SmallerThan", a |-> a]
SmallerEqual(a) == [kind |-> "SmallerEqual", a |-> a]
LargerThan(a) == [kind |-> "LargerThan", a |-> a]
LargerEqual(a) == [kind |-> "LargerEqual", a |-> a]

\* RealRange::contains
contains(range, x) ==
    CASE range.kind = "All" -> TRUE
      [] range.kind = "Closed" -> RLe(range.a, x) /\ RLe(x, range.b)
      [] range.kind = "Open" -> RLt(range.a, x) /\ RLt(x, range.b)
      [] range.kind = "HalfOpenR" -> RLe(range.a, x) /\ RLt(x, range.b)
      [] range.kind = "HalfOpenL" -> RLt(range.a, x) /\ RLe(x, range.b)
      [] range.kind = "SmallerThan" -> RLt(x, range.a)
      [] range.kind = "SmallerEqual" -> RLe(x, range.a)
      [] range.kind = "LargerThan" -> RGt(x, range.a)
      [] range.kind = "LargerEqual" -> RGe(x, range.a)

(***************************************************************************)
(* Option<T>.                                                              *)
(***************************************************************************)
None == [tag |-> "None"]
Some(v) == [tag |-> "Some", val |-> v]

(***************************************************************************)
(* The ray-sphere test (renderer.rs 214-263 and 344-399).                  *)
(***************************************************************************)
\* v.len() * v.len(): the square of the square root of x^2 + y^2 + z^2, which
\* without rounding is that sum.
LenTimesLen(v) == VDot(v, v)

\* f32::min: the smaller one, and the other one if one is NaN.
RMin(a, b) == IF IsNaN(a) THEN b ELSE IF RLt(b, a) THEN b ELSE a

\* The coefficients a, b, c of the quadratic equation and its discriminant d.
Quadratic(ball, ray_origin, ray_direction) ==
    LET center_adj == VSub(ray_origin, ball.pos)
        a == LenTimesLen(ray_direction)
        b == RMul(VDot(center_adj, ray_direction), R(2))
        c == RSub(LenTimesLen(center_adj), RMul(ball.rad, ball.rad))
        d == RSub(RMul(b, b), RMul(RMul(R(4), a), c))
    IN  [a |-> a, b |-> b, c |-> c, d |-> d]

\* let t = -b / 2.0 * a
TangentT(q) == RMul(RDiv(RNeg(q.b), R(2)), q.a)

\* let t1 = (-b + d.sqrt()) / (2.0 * a)
RootPlus(q) == RDiv(RAdd(RNeg(q.b), RSqrt(q.d)), RMul(R(2), q.a))

\* let t2 = (-b - d.sqrt()) / (2.0 * a)
RootMinus(q) == RDiv(RSub(RNeg(q.b), RSqrt(q.d)), RMul(R(2), q.a))

\* Renderer::find_ray_ball_intersection
find_ray_ball_intersection(ball, ray_origin, ray_direction, range) ==
    Bind(LAMBDA q :
           IF RLt(q.d, R(0)) THEN None
           ELSE IF q.d = R(0)
           THEN IF contains(range, TangentT(q)) THEN Some(TangentT(q)) ELSE None
           ELSE IF RGt(q.d, R(0))
           THEN IF contains(range, RootPlus(q)) \/ contains(range, RootMinus(q))
                THEN Some(RMin(RootPlus(q), RootMinus(q)))
                ELSE None
           ELSE None,
         Quadratic(ball, ray_origin, ray_direction))

\* let mut t_min: f32 = f32::MAX, kept as a value above every finite t.
F32Max == Infinity

\* One turn of the loop of get_nearest_intersecting_ball: <<t_min, result_ball>>
\* after `ball`, from <<t_min, result_ball>> before it.
NearestBallStep(acc, ball, ray_origin, ray_direction) ==
    Bind(LAMBDA q :
           IF RLt(q.d, R(0)) THEN acc
           ELSE IF q.d = R(0)
           THEN IF RLt(TangentT(q), acc[1]) /\ RGe(TangentT(q), R(1))
                THEN <<TangentT(q), Some(ball)>>
                ELSE acc
           ELSE IF RGt(q.d, R(0))
           THEN IF \/ RLt(RootPlus(q), acc[1]) /\ RGe(RootPlus(q), R(1))
                   \/ RLt(RootMinus(q), acc[1]) /\ RGe(RootMinus(q), R(1))
                THEN Bind(LAMBDA t : IF RGe(t, R(1)) THEN <<t, Some(ball)>> ELSE acc,
                          RMin(RootPlus(q), RootMinus(q)))
                ELSE acc
           ELSE acc,
         Quadratic(ball, ray_origin, ray_direction))

\* The loop over balls[i ..], from <<t_min, result_ball>> = acc.
RECURSIVE NearestBallLoop(_, _, _, _, _)
NearestBallLoop(balls, i, acc, ray_origin, ray_direction) ==
    IF i > Len(balls) THEN acc
    ELSE NearestBallLoop(balls, i + 1,
                         NearestBallStep(acc, balls[i], ray_origin, ray_direction),
                         ray_origin, ray_direction)

\* Renderer::get_nearest_intersecting_ball: Some([ball, p, t_min]) or None (the
\* code returns the pair (ball, p); t_min is kept beside it).
get_nearest_intersecting_ball(balls, ray_origin, ray_direction) ==
    Bind(LAMBDA acc :
           IF acc[2].tag = "Some"
           THEN Some([ball |-> acc[2].val,
                      p |-> VAdd(ray_origin, VScale(ray_direction, acc[1])),
                      t_min |-> acc[1]])
           ELSE None,
         NearestBallLoop(balls, 1, <<F32Max, None>>, ray_origin, ray_direction))

(***************************************************************************)
(* objects.rs: meshes and their faces.                                     *)
(***************************************************************************)
NoMaterial ==
    [ambient_constant |-> RGBA8(0, 0, 0, 255), diffuse_constant |-> R(1),
     specular_constant |-> R(1), shine |-> 1]

\* A call that unwinds: Option::unwrap on None.
Panic == [tag |-> "Panic"]

VertexObject(pos, vertices, faces) ==
    [pos |-> pos, vertices |-> vertices, faces |-> faces, material |-> NoMaterial]

\* Vec::get(index) with a 0-based index.
VecGet(vec, index) == IF index < Len(vec) THEN Some(vec[index + 1]) ELSE None

\* FacesIterator::next yielding the vertices of a face as (v0, v2, v1).
FacesIteratorNextSwapped(object, index) ==
    IF index < Len(object.faces)
    THEN LET face_indices == object.faces[index + 1]
             v0 == VecGet(object.vertices, face_indices[1])
             v1 == VecGet(object.vertices, face_indices[2])
             v2 == VecGet(object.vertices, face_indices[3])
         IN  IF v0 = None \/ v1 = None \/ v2 = None
             THEN Panic
             ELSE Some(<<v0.val, v2.val, v1.val>>)
    ELSE None

\* FacesIterator::next with self.index = index: Some(face), None at the end, and a
\* panic when one of the three vertex indices is out of range.
FacesIteratorNext(object, index) ==
    IF index < Len(object.faces)
    THEN LET face_indices == object.faces[index + 1]
             v0 == VecGet(object.vertices, face_indices[1])
             v1 == VecGet(object.vertices, face_indices[2])
             v2 == VecGet(object.vertices, face_indices[3])
         IN  IF v0 = None \/ v1 = None \/ v2 = None
             THEN Panic
             ELSE Some(<<v0.val, v1.val, v2.val>>)
    ELSE None

\* get_triangle_normal
get_triangle_normal(triangle_face) ==
    LET v0v1 == VSub(triangle_face[2], triangle_face[1])
        v0v2 == VSub(triangle_face[3], triangle_face[1])
    IN  cross_product(v0v1, v0v2)

(***************************************************************************)
(* The ray-triangle test (renderer.rs 142-212 and 267-341).                *)
(***************************************************************************)
PERPENDICULARITY_EPSILON == Rat(1, 1000)

\* f32::abs
RAbs(a) == IF a[1] < 0 THEN RNeg(a) ELSE a

\* The triangle moved to the position of its object.
Placed(triangle, triangle_pos) ==
    <<VAdd(triangle[1], triangle_pos), VAdd(triangle[2], triangle_pos),
      VAdd(triangle[3], triangle_pos)>>

\* let d = n * v0 * -1.0; let t = -(n * origin + d) / (n * direction)
PlaneT(n, v0, ray_origin, ray_direction) ==
    LET d == RMul(VDot(n, v0), R(-1))
    IN  RDiv(RNeg(RAdd(VDot(n, ray_origin), d)), VDot(n, ray_direction))

\* The three edge tests on the point p of the plane: FALSE when one of
\* i * v0p < 0.0, i * v1p < 0.0, i * v2p < 0.0 holds.
EdgeTests(n, v, p) ==
    /\ ~RLt(VDot(cross_product(n, VSub(v[2], v[1])), VSub(p, v[1])), R(0))
    /\ ~RLt(VDot(cross_product(n, VSub(v[3], v[2])), VSub(p, v[2])), R(0))
    /\ ~RLt(VDot(cross_product(n, VSub(v[1], v[3])), VSub(p, v[3])), R(0))

\* Renderer::find_ray_triangle_intersection
find_ray_triangle_intersection(triangle_pos, triangle, ray_origin, ray_direction, range) ==
    Bind(LAMBDA l :
           IF RLt(RAbs(VDot(l.n, l.dir)), PERPENDICULARITY_EPSILON) THEN None
           ELSE Bind(LAMBDA t :
                       IF ~contains(range, t) THEN None
                       ELSE IF EdgeTests(l.n, l.v, VAdd(ray_origin, VScale(l.dir, t)))
                       THEN Some(t)
                       ELSE None,
                     PlaneT(l.n, l.v[1], ray_origin, l.dir)),
         [dir |-> normalized(ray_direction),
          v |-> Placed(triangle, triangle_pos),
          n |-> get_triangle_normal(Placed(triangle, triangle_pos))])

\* One face of the loop of get_nearest_intersecting_triangle: <<t_min, result>>
\* after `face` of `object`, from acc = <<t_min, result>> before it.
NearestTriangleStep(acc, object, face, ray_origin, ray_direction) ==
    Bind(LAMBDA l :
           IF RLt(RAbs(VDot(l.n, ray_direction)), Rat(1, 1000)) THEN acc
           ELSE Bind(LAMBDA t :
                       IF RLt(t, R(1)) THEN acc
                       ELSE IF ~RLt(t, acc[1]) THEN acc
                       ELSE Bind(LAMBDA pt :
                                   IF EdgeTests(l.n, l.v, pt)
                                   THEN <<t, Some([object |-> object, face |-> face,
                                                   p |-> pt])>>
                                   ELSE acc,
                                 VAdd(ray_origin, VScale(ray_direction, t))),
                     PlaneT(l.n, l.v[1], ray_origin, ray_direction)),
         [v |-> Placed(face, object.pos),
          n |-> get_triangle_normal(Placed(face, object.pos))])

\* `for face in object.iter_faces()` from face number index on; Panic when the
\* iterator panics.
RECURSIVE NearestTriangleFaces(_, _, _, _, _)
NearestTriangleFaces(acc, object, index, ray_origin, ray_direction) ==
    Bind(LAMBDA next :
           IF next = None THEN acc
           ELSE IF next = Panic THEN Panic
           ELSE NearestTriangleFaces(
                    NearestTriangleStep(acc, object, next.val, ray_origin, ray_direction),
                    object, index + 1, ray_origin, ray_direction),
         FacesIteratorNext(object, index))

\* `for object in objects` from object number i on.
RECURSIVE NearestTriangleObjects(_, _, _, _, _)
NearestTriangleObjects(acc, objects, i, ray_origin, ray_direction) ==
    IF acc = Panic \/ i > Len(objects) THEN acc
    ELSE NearestTriangleObjects(
             NearestTriangleFaces(acc, objects[i], 0, ray_origin, ray_direction),
             objects, i + 1, ray_origin, ray_direction)

\* Renderer::get_nearest_intersecting_triangle: Some([object, face, p]), None, or
\* Panic.
get_nearest_intersecting_triangle(objects, ray_origin, ray_direction) ==
    Bind(LAMBDA acc : IF acc = Panic THEN Panic ELSE acc[2],
         NearestTriangleObjects(<<F32Max, None>>, objects, 1, ray_origin, ray_direction))

(***************************************************************************)
(* The shadow test (renderer.rs 401-427).                                  *)
(***************************************************************************)
\* A call that returned the value v.
Returned(v) == [tag |-> "Returned", val |-> v]

\* `for triangle in vertex_object.iter_faces()` of is_in_shadow from face number
\* index on: true at the first face the ray hits, false at the end, Panic when the
\* iterator panics.
RECURSIVE ShadowFaces(_, _, _, _)
ShadowFaces(object, index, ray_origin, dir) ==
    Bind(LAMBDA next :
           IF next = None THEN Returned(FALSE)
           ELSE IF next = Panic THEN Panic
           ELSE IF find_ray_triangle_intersection(object.pos, next.val, ray_origin, dir,
                                                  LargerThan(Rat(1, 10000))) # None
           THEN Returned(TRUE)
           ELSE ShadowFaces(object, index + 1, ray_origin, dir),
         FacesIteratorNext(object, index))

\* `for vertex_object in &world.vertex_objects` of is_in_shadow from object i on.
RECURSIVE ShadowObjects(_, _, _, _)
ShadowObjects(objects, i, ray_origin, dir) ==
    IF i > Len(objects) THEN Returned(FALSE)
    ELSE Bind(LAMBDA hit :
                IF hit = Returned(FALSE) THEN ShadowObjects(objects, i + 1, ray_origin, dir)
                ELSE hit,
              ShadowFaces(objects[i], 0, ray_origin, dir))

\* Renderer::is_in_shadow: Returned(true), Returned(false), or Panic.
is_in_shadow(w, ray_origin, ray_direction) ==
    Bind(LAMBDA dir :
           IF \E i \in 1 .. Len(w.balls) :
                 find_ray_ball_intersection(w.balls[i], ray_origin, dir,
                                            LargerThan(Rat(1, 10000))) # None
           THEN Returned(TRUE)
           ELSE ShadowObjects(w.vertex_objects, 1, ray_origin, dir),
         normalized(ray_direction))

(***************************************************************************)
(* get_light_color (renderer.rs 429-504) on a world, and render_pixel      *)
(* (renderer.rs 70-117) with the intersections and the shading worked out. *)
(***************************************************************************)
\* What a light adds when it adds nothing.
NoLight == [diffuse |-> Zero3, specular |-> Zero3]

\* One turn of `for light in &world.lights`: what the light adds to the diffuse and
\* to the specular sums, or Panic.  n is the normalized surface normal.
LightContribution(object, w, cam, hit_location, n, light) ==
    Bind(LAMBDA shadow :
           IF shadow = Panic THEN Panic
           ELSE IF shadow.val THEN NoLight
           ELSE Bind(LAMBDA l :
                       IF RGt(l.dot_product, R(0))
                       THEN [diffuse |->
                                 DiffuseTerms(object.material, light, l.dot_product, l.d_sq),
                             specular |->
                                 SpecularTerms(
                                     object.material, light,
                                     VDot(normalized(VSub(VScale(VScale(n, R(2)),
                                                                 l.dot_product),
                                                          l.p_to_light_normal)),
                                          normalized(VSub(cam.pos, object.pos))),
                                     l.d_sq)]
                       ELSE NoLight,
                     Bind(LAMBDA pl :
                            [p_to_light_normal |-> pl,
                             dot_product |-> VDot(pl, n),
                             d_sq |-> Bind(LAMBDA distance_to_light :
                                             RMul(distance_to_light, distance_to_light),
                                           VLen(VSub(light.pos, object.pos)))],
                          normalized(VSub(light.pos, object.pos)))),
         is_in_shadow(w, hit_location, VSub(light.pos, object.pos)))

\* The loop over world.lights[i ..] from the sums acc.
RECURSIVE LightLoop(_, _, _, _, _, _, _)
LightLoop(acc, object, w, cam, hit_location, n, i) ==
    IF i > Len(w.lights) THEN acc
    ELSE Bind(LAMBDA c :
                IF c = Panic THEN Panic
                ELSE LightLoop([diffuse |-> Add3(acc.diffuse, c.diffuse),
                                specular |-> Add3(acc.specular, c.specular)],
                               object, w, cam, hit_location, n, i + 1),
              LightContribution(object, w, cam, hit_location, n, w.lights[i]))

\* The diffuse and specular sums of get_light_color after its loop, or Panic.
LightSums(object, w, cam, hit_location, surface_normal) ==
    Bind(LAMBDA n : LightLoop(NoLight, object, w, cam, hit_location, n, 1),
         normalized(surface_normal))

\* The RGBA8 get_light_color makes of the ambient colour and the two sums.
LightColor(mat, sums) ==
    RGBA8(CombineChannel(mat.ambient_constant.r, sums.diffuse.r, sums.specular.r),
          CombineChannel(mat.ambient_constant.g, sums.diffuse.g, sums.specular.g),
          CombineChannel(mat.ambient_constant.b, sums.diffuse.b, sums.specular.b),
          255)

\* Renderer::get_light_color: Returned(rgba) or Panic.
get_light_color(object, w, cam, hit_location, surface_normal) ==
    Bind(LAMBDA sums :
           IF sums = Panic THEN Panic ELSE Returned(LightColor(object.material, sums)),
         LightSums(object, w, cam, hit_location, surface_normal))

\* What render_pixel has worked out when it returns: the rgba it copies into the
\* pixel, which candidate it shaded, with which object at which point, and the
\* sums get_light_color had for it.
Rendered(rgba, shaded, object, p, sums) ==
    Returned([rgba |-> rgba, shaded |-> shaded, object |-> object, p |-> p,
              sums |-> sums])

\* The shading of the ball candidate, filtered.
RenderBall(gray, cam, w, closest_ball) ==
    Bind(LAMBDA sums :
           IF sums = Panic THEN Panic
           ELSE Rendered(apply_filters(gray, LightColor(closest_ball.ball.material, sums)),
                         "ball", closest_ball.ball, closest_ball.p, sums),
         LightSums(closest_ball.ball, w, cam, closest_ball.p,
                   normalized(VSub(closest_ball.p, closest_ball.ball.pos))))

\* The shading of the triangle candidate, filtered.
RenderTriangle(gray, cam, w, closest_triangle) ==
    Bind(LAMBDA sums :
           IF sums = Panic THEN Panic
           ELSE Rendered(apply_filters(gray,
                                       LightColor(closest_triangle.object.material, sums)),
                         "triangle", closest_triangle.object, closest_triangle.p, sums),
         LightSums(closest_triangle.object, w, cam, closest_triangle.p,
                   get_triangle_normal(closest_triangle.face)))

\* render_pixel with `distance_ball < distance_triangle`: a tie goes to the triangle.
render_pixel_tie_to_triangle(pixel_index, gray, cam, w) ==
    Bind(LAMBDA c :
           IF c.closest_triangle = Panic THEN Panic
           ELSE IF c.closest_ball # None /\ c.closest_triangle # None
           THEN IF RLt(VLen(VSub(cam.pos, c.closest_ball.val.p)),
                       VLen(VSub(cam.pos, c.closest_triangle.val.p)))
                THEN RenderBall(gray, cam, w, c.closest_ball.val)
                ELSE RenderTriangle(gray, cam, w, c.closest_triangle.val)
           ELSE IF c.closest_ball # None THEN RenderBall(gray, cam, w, c.closest_ball.val)
           ELSE IF c.closest_triangle # None
           THEN RenderTriangle(gray, cam, w, c.closest_triangle.val)
           ELSE Rendered(apply_filters(gray, w.color), "background", None, None, NoLight),
         Bind(LAMBDA pixel_ray_direction :
                [closest_ball |->
                     get_nearest_intersecting_ball(w.balls, cam.pos, pixel_ray_direction),
                 closest_triangle |->
                     get_nearest_intersecting_triangle(w.vertex_objects, cam.pos,
                                                       pixel_ray_direction)],
              calculate_pixel_ray(cam, pixel_index)))

\* Renderer::render_pixel on a world: what it has worked out, or Panic.
render_pixel_world(pixel_index, gray, cam, w) ==
    Bind(LAMBDA c :
           IF c.closest_triangle = Panic THEN Panic
           ELSE IF c.closest_ball # None /\ c.closest_triangle # None
           THEN IF RLe(VLen(VSub(cam.pos, c.closest_ball.val.p)),
                       VLen(VSub(cam.pos, c.closest_triangle.val.p)))
                THEN RenderBall(gray, cam, w, c.closest_ball.val)
                ELSE RenderTriangle(gray, cam, w, c.closest_triangle.val)
           ELSE IF c.closest_ball # None THEN RenderBall(gray, cam, w, c.closest_ball.val)
           ELSE IF c.closest_triangle # None
           THEN RenderTriangle(gray, cam, w, c.closest_triangle.val)
           ELSE Rendered(apply_filters(gray, w.color), "background", None, None, NoLight),
         Bind(LAMBDA pixel_ray_direction :
                [closest_ball |->
                     get_nearest_intersecting_ball(w.balls, cam.pos, pixel_ray_direction),
                 closest_triangle |->
                     get_nearest_intersecting_triangle(w.vertex_objects, cam.pos,
                                                       pixel_ray_direction)],
              calculate_pixel_ray(cam, pixel_index)))

(***************************************************************************)
(* Rays against balls: the world's balls, the ray and the range are drawn  *)
(* at the start, then one of the two routines is called.                   *)
(***************************************************************************)
MaxBalls == 2

Ball(pos, rad) == [pos |-> pos, rad |-> rad, material |-> NoMaterial]

\* Balls of radius 5 around z = -10, at 0, 3, 4, 5 and 6 from the z-axis.
BallSamples ==
    {Ball(ivec3(x, 0, -10), R(5)) : x \in {0, 3, 4, 5, 6}}

\* Ray origins on the z-axis: in front of the balls and inside the one on the axis.
OriginSamples == {ivec3(0, 0, 0), ivec3(0, 0, -8)}

\* Ray directions down the z-axis, of length 1 and of length 2.
DirectionDownSamples == {ivec3(0, 0, -1), ivec3(0, 0, -2)}

RangeSamples ==
    {All, LargerEqual(R(1)), LargerThan(Rat(1, 10000)), Open(R(0), R(1)),
     Closed(R(3), R(6)), SmallerThan(R(0))}

EmptyWorld == [balls |-> <<>>, vertex_objects |-> <<>>, lights |-> <<>>,
               color |-> RGBA8(0, 0, 0, 255)]

IterParked ==
    /\ faces_iterator = None
    /\ next_results = <<>>

GeoParked ==
    /\ world = EmptyWorld
    /\ geo_origin = ivec3(0, 0, 0)
    /\ geo_direction = ivec3(0, 0, 0)
    /\ t_allowed_range = All
    /\ geo_call = "parked"
    /\ geo_result = None

BallInit ==
    /\ world \in {[EmptyWorld EXCEPT !.balls = bs] :
                     bs \in UNION {[1 .. n -> BallSamples] : n \in 1 .. MaxBalls}}
    /\ geo_origin \in OriginSamples
    /\ geo_direction \in DirectionDownSamples
    /\ t_allowed_range \in RangeSamples
    /\ geo_call = "none"
    /\ geo_result = None

\* self.find_ray_ball_intersection(&ball, origin, direction, t_allowed_range) on
\* the first ball of the world.
FindRayBallIntersection ==
    /\ geo_call = "none"
    /\ geo_call' = "find_ray_ball_intersection"
    /\ geo_result' = find_ray_ball_intersection(world.balls[1], geo_origin, geo_direction,
                                                t_allowed_range)
    /\ UNCHANGED <<world, geo_origin, geo_direction, t_allowed_range>>
    /\ UNCHANGED notGeo

\* self.get_nearest_intersecting_ball(&world.balls, origin, direction)
GetNearestIntersectingBall ==
    /\ geo_call = "none"
    /\ geo_call' = "get_nearest_intersecting_ball"
    /\ geo_result' = get_nearest_intersecting_ball(world.balls, geo_origin, geo_direction)
    /\ UNCHANGED <<world, geo_origin, geo_direction, t_allowed_range>>
    /\ UNCHANGED notGeo

(***************************************************************************)
(* Rays against meshes: the ray and the range are drawn at the start; the  *)
(* meshes are loaded from files into the world (main.rs 60-76), then one   *)
(* of the two ray-triangle routines is called.                             *)
(***************************************************************************)
MaxObjects == 1

Ok(v) == [tag |-> "Ok", val |-> v]
Err == [tag |-> "Err"]

\* The fields serde's derived Deserialize asks of the JSON of a VertexObject.
VertexObjectFields == {"pos", "vertices", "faces", "material"}

\* load_object_from_file_json::<VertexObject, _>: Ok when the JSON has every field
\* and each face index parses as a usize; nothing else is looked at.
load_object_from_file_json(json) ==
    IF /\ VertexObjectFields \subseteq DOMAIN json
       /\ \A k \in 1 .. Len(json.faces) : \A j \in 1 .. 3 : json.faces[k][j] >= 0
    THEN Ok([f \in VertexObjectFields |-> json[f]])
    ELSE Err

ExampleVertices == <<ivec3(0, 0, 0), ivec3(2, 0, 0), ivec3(0, 2, 0)>>

\* A triangle of the same shape with legs of 1/50.
SmallVertices == <<ivec3(0, 0, 0), vec3(Rat(1, 50), R(0), R(0)), vec3(R(0), Rat(1, 50), R(0))>>

\* A unit square below the example triangle, as two faces.
SquareVertices == <<ivec3(0, 0, 0), ivec3(1, 0, 0), ivec3(0, 1, 0), ivec3(1, 1, 0)>>

\* The JSON documents of the object files: the example triangle in both windings, a
\* small triangle, a two-face square at z = -1, a face naming a vertex the mesh has
\* not got, a negative face index, and a document without its faces.
ObjectFileSamples ==
    {VertexObject(ivec3(0, 0, 0), ExampleVertices, <<<<0, 1, 2>>>>),
     VertexObject(ivec3(0, 0, 0), ExampleVertices, <<<<0, 2, 1>>>>),
     VertexObject(ivec3(0, 0, 0), SmallVertices, <<<<0, 1, 2>>>>),
     VertexObject(ivec3(0, 0, -1), SquareVertices, <<<<0, 1, 2>>, <<1, 3, 2>>>>),
     VertexObject(ivec3(0, 0, 0), ExampleVertices, <<<<0, 1, 3>>>>),
     VertexObject(ivec3(0, 0, 0), ExampleVertices, <<<<0, 1, -1>>>>),
     [pos |-> ivec3(0, 0, 0), vertices |-> ExampleVertices, material |-> NoMaterial]}

\* Ray origins above the plane z = 0: over the inside of the example triangle, far
\* outside it, over its vertex v0, over its longest edge, and off to the side.
TriangleOriginSamples ==
    {vec3(Rat(1, 2), Rat(1, 2), R(5)), ivec3(3, 3, 5), ivec3(0, 0, 5), ivec3(1, 1, 5),
     vec3(Rat(1, 2), Rat(17, 4), R(5))}

\* Ray directions: down (of length 1 and 2), up, along the plane, and slanted.
TriangleDirectionSamples ==
    {ivec3(0, 0, -1), ivec3(0, 0, -2), ivec3(0, 0, 1), ivec3(1, 0, 0), ivec3(0, -3, -4)}

TriangleInit ==
    /\ world = EmptyWorld
    /\ geo_origin \in TriangleOriginSamples
    /\ geo_direction \in TriangleDirectionSamples
    /\ t_allowed_range \in RangeSamples
    /\ geo_call = "none"
    /\ geo_result = None

\* let object: VertexObject = load_object_from_file_json(path).unwrap();
\* world.vertex_objects.push(object);
LoadObject ==
    /\ geo_call = "none"
    /\ Len(world.vertex_objects) < MaxObjects
    /\ \E json \in ObjectFileSamples :
          LET loaded == load_object_from_file_json(json)
          IN  IF loaded.tag = "Ok"
              THEN /\ world' = [world EXCEPT !.vertex_objects = Append(@, loaded.val)]
                   /\ UNCHANGED <<geo_call, geo_result>>
              ELSE /\ geo_call' = "load_object_from_file_json"
                   /\ geo_result' = Panic
                   /\ UNCHANGED world
    /\ UNCHANGED <<geo_origin, geo_direction, t_allowed_range>>
    /\ UNCHANGED notGeo

\* The mesh the ray-triangle test is run on: the one loaded last.
LastObject == world.vertex_objects[Len(world.vertex_objects)]

\* self.find_ray_triangle_intersection(vertex_object.pos, triangle, origin,
\* direction, t_allowed_range) for the first triangle of vertex_object.iter_faces().
FindRayTriangleIntersection ==
    /\ geo_call = "none"
    /\ Len(world.vertex_objects) >= 1
    /\ geo_call' = "find_ray_triangle_intersection"
    /\ \E next \in {FacesIteratorNext(LastObject, 0)} :
          geo_result' =
              IF next.tag = "Some"
              THEN find_ray_triangle_intersection(LastObject.pos, next.val, geo_origin,
                                                  geo_direction, t_allowed_range)
              ELSE next
    /\ UNCHANGED <<world, geo_origin, geo_direction, t_allowed_range>>
    /\ UNCHANGED notGeo

\* self.get_nearest_intersecting_triangle(&world.vertex_objects, origin, direction)
GetNearestIntersectingTriangle ==
    /\ geo_call = "none"
    /\ Len(world.vertex_objects) >= 1
    /\ geo_call' = "get_nearest_intersecting_triangle"
    /\ geo_result' = get_nearest_intersecting_triangle(world.vertex_objects, geo_origin,
                                                       geo_direction)
    /\ UNCHANGED <<world, geo_origin, geo_direction, t_allowed_range>>
    /\ UNCHANGED notGeo

(***************************************************************************)
(* The shadow test on its own: the occluders of the world, the point and   *)
(* the vector from it to the light are drawn at the start.                 *)
(***************************************************************************)
\* Meshes below the point (0,0,0): the example triangle 3 and 7 down the z-axis, and
\* one with a face naming a vertex it has not got.
ShadowObjectSamples ==
    {VertexObject(ivec3(0, 0, -3), ExampleVertices, <<<<0, 1, 2>>>>),
     VertexObject(ivec3(0, 0, -7), ExampleVertices, <<<<0, 2, 1>>>>),
     VertexObject(ivec3(0, 0, -3), ExampleVertices, <<<<0, 1, 3>>>>)}

\* The vector to the light: 4, 5, 10 and 20 down the z-axis, and 4 up.
ToLightSamples ==
    {ivec3(0, 0, -4), ivec3(0, 0, -5), ivec3(0, 0, -10), ivec3(0, 0, -20), ivec3(0, 0, 4)}

ShadowInit ==
    /\ world \in {[EmptyWorld EXCEPT !.balls = bs, !.vertex_objects = os] :
                     bs \in UNION {[1 .. n -> BallSamples] : n \in 0 .. MaxBalls},
                     os \in UNION {[1 .. n -> ShadowObjectSamples] : n \in 0 .. MaxObjects}}
    /\ geo_origin \in OriginSamples
    /\ geo_direction \in ToLightSamples
    /\ t_allowed_range = LargerThan(Rat(1, 10000))
    /\ geo_call = "none"
    /\ geo_result = None

\* self.is_in_shadow(world, origin, direction)
IsInShadow ==
    /\ geo_call = "none"
    /\ geo_call' = "is_in_shadow"
    /\ geo_result' = is_in_shadow(world, geo_origin, geo_direction)
    /\ UNCHANGED <<world, geo_origin, geo_direction, t_allowed_range>>
    /\ UNCHANGED notGeo

(***************************************************************************)
(* render_pixel on a scene: the world, the camera and the grayscale switch *)
(* are drawn at the start, then one pixel of the frame is rendered.        *)
(***************************************************************************)
BallMaterial ==
    [ambient_constant |-> RGBA8(90, 60, 31, 255), diffuse_constant |-> R(1),
     specular_constant |-> R(1), shine |-> 1]

MeshMaterial ==
    [ambient_constant |-> RGBA8(30, 120, 241, 255), diffuse_constant |-> R(1),
     specular_constant |-> R(1), shine |-> 1]

\* The sphere the central ray of the camera hits at (0,0,-5).
BigBall == [pos |-> ivec3(0, 0, -10), rad |-> R(5), material |-> BallMaterial]

\* A small sphere around the middle of the segment from (0,0,-5) to the light at
\* (6,0,-2).
BallOnSegment ==
    [pos |-> vec3(R(3), R(0), Rat(-7, 2)), rad |-> Rat(1, 2), material |-> BallMaterial]

\* A small sphere off that segment, 5 from (0,0,-5) along (6,0,8), which is the
\* vector from the centre of BigBall to the light.
BallOffSegment ==
    [pos |-> ivec3(3, 0, -1), rad |-> Rat(1, 2), material |-> BallMaterial]

SceneBalls ==
    {<<>>, <<BigBall>>, <<BigBall, BallOnSegment>>, <<BallOffSegment, BigBall>>,
     <<BallOnSegment>>}

\* A mesh at the centre of BigBall with one triangle across the z-axis, at height z
\* above the mesh's position and facing up.
SceneMesh(z) ==
    [pos |-> ivec3(0, 0, -10),
     vertices |-> <<vec3(Rat(-1, 2), Rat(-1, 2), R(z)), vec3(Rat(3, 2), Rat(-1, 2), R(z)),
                    vec3(Rat(-1, 2), Rat(3, 2), R(z))>>,
     faces |-> <<<<0, 1, 2>>>>,
     material |-> MeshMaterial]

\* No mesh; a triangle through the point (0,0,-5) of BigBall; one in front of
\* BigBall; one behind that point.
SceneObjects == {<<>>, <<SceneMesh(5)>>, <<SceneMesh(8)>>, <<SceneMesh(-2)>>}

SceneLight(pos, r, g, b) ==
    [pos |-> pos, diffuse_intensity |-> LightIntensity(r, g, b),
     specular_intensity |-> LightIntensity(r, g, b)]

LightAside == SceneLight(ivec3(6, 0, -2), 1000, 1000, 1000)

LightAbove == SceneLight(ivec3(0, 0, 10), 2000, 1000, 0)

SceneLights == {<<>>, <<LightAside>>, <<LightAbove>>, <<LightAside, LightAbove>>}

\* World::new() with the colour of main.rs 59.
SceneWorlds ==
    {[balls |-> bs, vertex_objects |-> os, lights |-> ls,
      color |-> RGBA8(196, 196, 196, 255)] :
        bs \in SceneBalls, os \in SceneObjects, ls \in SceneLights}

\* Cameras on the z-axis looking down it, with a 2x2 frame: pixel 3 is the ray
\* along the view direction.
SceneCameras ==
    {NewCamera(pos, ivec3(0, 0, -1), R(90), [w |-> 2, h |-> 2]) :
        pos \in {ivec3(0, 0, 5), ivec3(0, 0, 0)}}

SceneInit ==
    /\ world \in SceneWorlds
    /\ geo_origin = ivec3(0, 0, 0)
    /\ geo_direction = ivec3(0, 0, 0)
    /\ t_allowed_range = All
    /\ geo_call = "none"
    /\ geo_result = None
    /\ camera \in SceneCameras
    /\ cam_state = "built"
    /\ cam_call = Call("new", R(90), "Ok", TRUE)
    /\ filter_in = RGBA8(0, 0, 0, 255)
    /\ filter_gray \in BOOLEAN
    /\ filter_rgba = RGBA8(0, 0, 0, 255)
    /\ filter_n = 0

\* self.render_pixel(pixel_index, pixel, camera, world) for a pixel of the frame.
RenderPixel ==
    /\ geo_call = "none"
    /\ geo_call' = "render_pixel"
    /\ \E i \in 0 .. camera.resolution.w * camera.resolution.h - 1 :
          /\ ray_index' = i
          /\ pixel_ray' = calculate_pixel_ray(camera, i)
          /\ geo_result' = render_pixel_world(i, filter_gray, camera, world)
    /\ UNCHANGED <<world, geo_origin, geo_direction, t_allowed_range>>
    /\ UNCHANGED <<renderVars, filterVars, cameraVars, shadeVars, iterVars>>

(***************************************************************************)
(* The specifications.                                                     *)
(***************************************************************************)
RenderParked ==
    /\ multithreading_method = "Rayon"
    /\ grayscale = FALSE
    /\ resolution = [w |-> 1, h |-> 1]
    /\ cpu_count = 1
    /\ frame_buffer = ZeroCounts(4)
    /\ pc = "idle"
    /\ seq_i = 0
    /\ rayon_done = {}
    /\ pixels_per_thread = 0
    /\ chunk_pos = 0
    /\ offset = 0
    /\ threads = <<>>
    /\ write_count = ZeroCounts(4)
    /\ render_count = ZeroCounts(1)

Init == RenderInit /\ FilterParked /\ CameraParked /\ RayParked /\ ShadeParked
    /\ GeoParked /\ IterParked

Next == RenderNext

Spec == Init /\ [][Next]_vars

\* The operating system schedules every runnable thread: a call in progress goes on.
FairSpec == Init /\ [][Next]_vars /\ WF_vars(RenderStep)

FilterSpecInit == FilterInit /\ RenderParked /\ CameraParked /\ RayParked /\ ShadeParked
    /\ GeoParked /\ IterParked

FilterSpecNext == ApplyFilters

FilterSpec == FilterSpecInit /\ [][FilterSpecNext]_vars

CameraSpecInit == CameraInit /\ RenderParked /\ FilterParked /\ RayParked /\ ShadeParked
    /\ GeoParked /\ IterParked

CameraSpecNext ==
    \/ CameraNew
    \/ SetFieldOfViewHorizontal
    \/ SetFieldOfViewHorizontalDeg
    \/ Translate
    \/ LookAt
    \/ SetViewDirection

CameraSpec == CameraSpecInit /\ [][CameraSpecNext]_vars

RaySpecInit == RayCameraInit /\ RayParked /\ RenderParked /\ FilterParked /\ ShadeParked
    /\ GeoParked /\ IterParked

RaySpecNext == CalculatePixelRay

RaySpec == RaySpecInit /\ [][RaySpecNext]_vars

ShadeSpecInit ==
    ShadeInit /\ RenderParked /\ FilterParked /\ CameraParked /\ RayParked
    /\ GeoParked /\ IterParked

ShadeSpecNext == ShadeLight \/ ShadeFinish

ShadeSpec == ShadeSpecInit /\ [][ShadeSpecNext]_vars

BallSpecInit ==
    BallInit /\ RenderParked /\ FilterParked /\ CameraParked /\ RayParked
    /\ ShadeParked /\ IterParked

BallSpecNext == FindRayBallIntersection \/ GetNearestIntersectingBall

BallSpec == BallSpecInit /\ [][BallSpecNext]_vars

TriangleSpecInit ==
    TriangleInit /\ RenderParked /\ FilterParked /\ CameraParked /\ RayParked
    /\ ShadeParked /\ IterParked

TriangleSpecNext ==
    LoadObject \/ FindRayTriangleIntersection \/ GetNearestIntersectingTriangle

TriangleSpec == TriangleSpecInit /\ [][TriangleSpecNext]_vars

ShadowSpecInit ==
    ShadowInit /\ RenderParked /\ FilterParked /\ CameraParked /\ RayParked
    /\ ShadeParked /\ IterParked

ShadowSpecNext == IsInShadow

ShadowSpec == ShadowSpecInit /\ [][ShadowSpecNext]_vars

SceneSpecInit == SceneInit /\ RenderParked /\ RayParked /\ ShadeParked /\ IterParked

SceneSpecNext == RenderPixel

SceneSpec == SceneSpecInit /\ [][SceneSpecNext]_vars

(***************************************************************************)
(* util.rs, vector.rs: SphericalCoordinates.  The f32 angles theta and phi *)
(* are kept as the point [cos, sin] they name together with the number of  *)
(* full turns they lie above their principal value in (-pi, pi].           *)
(***************************************************************************)
Radians(angle, turns) == [cos |-> angle.cos, sin |-> angle.sin, turns |-> turns]

\* angle < 0.0
RadiansBelowZero(r) ==
    ~IsNaN(r.cos) /\ ~IsNaN(r.sin) /\ (r.turns < 0 \/ (r.turns = 0 /\ RLt(r.sin, R(0))))

\* angle > PI
RadiansAbovePi(r) == ~IsNaN(r.cos) /\ ~IsNaN(r.sin) /\ r.turns >= 1

\* angle > 2.0 * PI
RadiansAboveTwoPi(r) ==
    /\ ~IsNaN(r.cos) /\ ~IsNaN(r.sin)
    /\ \/ r.turns >= 2
       \/ r.turns = 1 /\ (RGt(r.sin, R(0)) \/ (r.sin = R(0) /\ RLt(r.cos, R(0))))

\* f32::acos(c): an angle in [0, pi], its sine >= 0; NaN outside [-1, 1].
Acos(c) ==
    IF RLe(R(-1), c) /\ RLe(c, R(1))
    THEN Angle(c, RSqrt(RSub(R(1), RMul(c, c))))
    ELSE NaNAngle

\* SphericalCoordinates::new_strict
new_strict(rad, theta, phi) ==
    IF RLt(rad, R(0)) THEN Err
    ELSE IF RadiansBelowZero(theta) \/ RadiansAbovePi(theta) THEN Err
    ELSE IF RadiansBelowZero(phi) \/ RadiansAboveTwoPi(phi) THEN Err
    ELSE Ok([rad |-> rad, theta |-> theta, phi |-> phi])

\* impl From<Vec3> for SphericalCoordinates with phi left as atan2 returns it.
SphericalCoordinatesFromUnwrapped(cartesian) ==
    LET rad == RSqrt(RAdd(RAdd(RMul(cartesian.x, cartesian.x),
                               RMul(cartesian.y, cartesian.y)),
                          RMul(cartesian.z, cartesian.z)))
        theta == Radians(Acos(RDiv(cartesian.z, rad)), 0)
        phi == Radians(Atan2(cartesian.y, cartesian.x), 0)
    IN  Bind(LAMBDA made : IF made = Err THEN Panic ELSE made.val,
             new_strict(rad, theta, phi))

\* impl From<Vec3> for SphericalCoordinates: the coordinates, or Panic when the
\* expect() meets an Err.
SphericalCoordinatesFrom(cartesian) ==
    LET rad == RSqrt(RAdd(RAdd(RMul(cartesian.x, cartesian.x),
                               RMul(cartesian.y, cartesian.y)),
                          RMul(cartesian.z, cartesian.z)))
        theta == Radians(Acos(RDiv(cartesian.z, rad)), 0)
        atan == Radians(Atan2(cartesian.y, cartesian.x), 0)
        phi == IF RadiansBelowZero(atan) THEN [atan EXCEPT !.turns = @ + 1] ELSE atan
    IN  Bind(LAMBDA made : IF made = Err THEN Panic ELSE made.val,
             new_strict(rad, theta, phi))

\* impl From<SphericalCoordinates> for Vec3
Vec3From(sphere) ==
    vec3(RMul(RMul(sphere.rad, sphere.phi.cos), sphere.theta.sin),
         RMul(RMul(sphere.rad, sphere.phi.sin), sphere.theta.sin),
         RMul(sphere.rad, sphere.theta.cos))

\* Vectors whose length and whose length in the xy-plane are rational: along the
\* axes, in the three coordinate planes, off every plane, with every sign, of two
\* sizes, and the zero vector.
VectorSamples ==
    LET Signs == {-1, 1}
        Whole ==
            {ivec3(3 * sx * m, 4 * sy * m, 12 * sz * n) :
                sx \in Signs, sy \in Signs, sz \in Signs, m \in {0, 1}, n \in {0, 1}}
            \cup {ivec3(4 * sx, 0, 3 * sz) : sx \in Signs, sz \in Signs}
            \cup {ivec3(0, 3 * sy, 4 * sz) : sy \in Signs, sz \in Signs}
            \cup {ivec3(sx, 0, 0) : sx \in Signs} \cup {ivec3(0, sy, 0) : sy \in Signs}
    IN  Whole \cup {VScale(v, Rat(1, 2)) : v \in Whole}

SphereInit ==
    /\ world = EmptyWorld
    /\ geo_origin \in VectorSamples
    /\ geo_direction = ivec3(0, 0, 0)
    /\ t_allowed_range = All
    /\ geo_call = "none"
    /\ geo_result = None

\* let s: SphericalCoordinates = v.into();
IntoSpherical ==
    /\ geo_call = "none"
    /\ geo_call' = "SphericalCoordinates::from"
    /\ geo_result' = SphericalCoordinatesFrom(geo_origin)
    /\ UNCHANGED <<world, geo_origin, geo_direction, t_allowed_range>>
    /\ UNCHANGED notGeo

\* let back: Vec3 = s.into();
IntoVec3 ==
    /\ geo_call = "SphericalCoordinates::from"
    /\ geo_result # Panic
    /\ geo_call' = "Vec3::from"
    /\ geo_result' = [sphere |-> geo_result, back |-> Vec3From(geo_result)]
    /\ UNCHANGED <<world, geo_origin, geo_direction, t_allowed_range>>
    /\ UNCHANGED notGeo

SphereSpecInit == SphereInit /\ RenderParked /\ FilterParked /\ CameraParked /\ RayParked
    /\ ShadeParked /\ IterParked

SphereSpecNext == IntoSpherical \/ IntoVec3

SphereSpec == SphereSpecInit /\ [][SphereSpecNext]_vars

(***************************************************************************)
(* VertexObject::iter_faces and FacesIterator::next on one mesh.           *)
(***************************************************************************)
\* How many times next() is called on an iterator after it has returned None.
MaxNextAfterEnd == 2

\* Meshes in memory: no face, one face, the two faces of the square, three faces
\* sharing vertices, and a second face naming a vertex the mesh has not got.
IterMeshSamples ==
    {VertexObject(ivec3(0, 0, 0), ExampleVertices, <<>>),
     VertexObject(ivec3(0, 0, 0), ExampleVertices, <<<<0, 2, 1>>>>),
     VertexObject(ivec3(0, 0, -1), SquareVertices, <<<<0, 1, 2>>, <<1, 3, 2>>>>),
     VertexObject(ivec3(0, 0, -1), SquareVertices, <<<<3, 3, 0>>, <<0, 1, 2>>, <<2, 1, 0>>>>),
     VertexObject(ivec3(0, 0, 0), ExampleVertices, <<<<0, 1, 2>>, <<0, 3, 1>>>>)}

IterInit ==
    /\ world \in {[EmptyWorld EXCEPT !.vertex_objects = meshes] :
                     meshes \in UNION {[1 .. n -> IterMeshSamples] : n \in 1 .. 2}}
    /\ geo_origin = ivec3(0, 0, 0)
    /\ geo_direction = ivec3(0, 0, 0)
    /\ t_allowed_range = All
    /\ geo_call = "none"
    /\ geo_result = None
    /\ IterParked

\* FacesIterator::from_vertex_object
from_vertex_object(vertex_object) ==
    [index |-> 0, vertices |-> vertex_object.vertices, face_indices |-> vertex_object.faces]

\* The calls made after the one that returned None (0 while none has).
NextAfterEnd ==
    Cardinality({k \in 1 .. Len(next_results) : next_results[k] = None}) - 1

\* vertex_object.iter_faces() on a mesh of the world: a new iterator, whatever
\* became of the last one.
IterFaces ==
    /\ geo_call # "panicked"
    /\ \E k \in 1 .. Len(world.vertex_objects) :
          faces_iterator' = Some(from_vertex_object(world.vertex_objects[k]))
    /\ next_results' = <<>>
    /\ geo_call' = "iter_faces"
    /\ UNCHANGED <<world, geo_origin, geo_direction, t_allowed_range, geo_result>>
    /\ UNCHANGED notGeoIter

\* next() on the iterator; a panic unwinds out of the caller.
IterNext ==
    /\ geo_call # "panicked"
    /\ faces_iterator # None
    /\ NextAfterEnd < MaxNextAfterEnd
    /\ LET self == faces_iterator.val
       IN  \E next \in {FacesIteratorNext([vertices |-> self.vertices,
                                            faces |-> self.face_indices], self.index)} :
              /\ faces_iterator' = IF next.tag = "Some"
                                   THEN Some([self EXCEPT !.index = @ + 1])
                                   ELSE faces_iterator
              /\ next_results' = Append(next_results, next)
              /\ geo_call' = IF next = Panic THEN "panicked" ELSE "next"
              /\ geo_result' = next
    /\ UNCHANGED <<world, geo_origin, geo_direction, t_allowed_range>>
    /\ UNCHANGED notGeoIter

IterSpecInit == IterInit /\ RenderParked /\ FilterParked /\ CameraParked /\ RayParked
    /\ ShadeParked

IterSpecNext == IterFaces \/ IterNext

IterSpec == IterSpecInit /\ [][IterSpecNext]_vars

KeySpecInit == KeyInit /\ RenderParked /\ FilterParked /\ RayParked /\ ShadeParked
    /\ GeoParked /\ IterParked

KeySpecNext == KeyMinus \/ KeyEquals

KeySpec == KeySpecInit /\ [][KeySpecNext]_vars

(***************************************************************************)
(* The dispatch strategies (Spec, FairSpec).                               *)
(***************************************************************************)
\* The call of render_world has ended, by returning or by unwinding.
CallEnded == pc \in {"returned", "panicked"}

\* What the strictly sequential strategy writes: byte k belongs to pixel k \div 4.
SequentialBuffer ==
    [k \in 0 .. BufferLen(resolution) - 1 |->
        render_pixel(k \div 4, grayscale, resolution)[(k % 4) + 1]]

\* C1: for every resolution and every worker count, a call of render_world under
\* None, Rayon or Crossbeam leaves the buffer the sequential strategy leaves,
\* whatever the interleaving of the workers.
C1_StrategiesLeaveSameBuffer == CallEnded => frame_buffer = SequentialBuffer

\* C2: render_world never fails for well-formed inputs, under each strategy and
\* for every number of CPUs, a pixel count below the CPU count included.
C2_RenderNeverFails == pc # "panicked"

\* C3: during one call every pixel index is rendered exactly once, into its own
\* four bytes: no byte is written twice, a written byte holds the colour of its
\* own pixel, and when the call has ended no byte is left unwritten.
C3_EachPixelRenderedOnce ==
    /\ \A k \in DOMAIN write_count : write_count[k] <= 1
    /\ \A i \in DOMAIN render_count : render_count[i] <= 1
    /\ pc # "idle" =>
          \A k \in DOMAIN write_count :
             write_count[k] = 1 => /\ frame_buffer[k] = SequentialBuffer[k]
                                   /\ render_count[k \div 4] = 1
    /\ CallEnded =>
          /\ \A k \in DOMAIN write_count : write_count[k] = 1
          /\ \A i \in DOMAIN render_count : render_count[i] = 1

\* C4: render_world returns only after every worker has finished (no returned call
\* with a worker running or a pixel unwritten), and under fair scheduling every
\* started frame eventually completes.
C4_EveryFrameCompletes ==
    /\ [](pc = "returned" =>
            /\ \A t \in 1 .. Len(threads) : ThreadFinished(threads[t])
            /\ \A i \in DOMAIN render_count : render_count[i] = 1)
    /\ ((pc = "rendering") ~> (pc = "returned"))

\* C5: the Crossbeam strategy splits the buffer into exactly cpu_count chunks and
\* spawns exactly one thread per chunk, for every pixel count.
C5_ExactlyCpuCountChunks ==
    (pc = "returned" /\ multithreading_method = "Crossbeam") => Len(threads) = cpu_count

(***************************************************************************)
(* The grayscale filter (FilterSpec).                                      *)
(***************************************************************************)
\* C7: the grayscale filter is idempotent: applying apply_filters twice gives the
\* pixel that applying it once gives.
C7_GrayscaleIdempotent ==
    (filter_gray /\ filter_n = 2) => filter_rgba = apply_filters(TRUE, filter_in)

\* C8: with grayscale on each of r, g, b becomes floor((r + g + b) / 3) of the input
\* channels; with grayscale off the pixel is unchanged.
C8_GrayscaleIsTruncatedAverage ==
    filter_n = 1 =>
        IF filter_gray
        THEN LET avg == (filter_in.r + filter_in.g + filter_in.b) \div 3
             IN  filter_rgba = RGBA8(avg, avg, avg, filter_in.a)
        ELSE filter_rgba = filter_in

(***************************************************************************)
(* The pixel rays (RaySpec).                                               *)
(***************************************************************************)
\* The point of the image plane with weight a / w along the top and bottom edges
\* and weight b / h along the left and right edges.
PlanePoint(plane, a, w, b, h) ==
    VScale(VAdd(VAdd(VScale(plane.top_left, R((w - a) * (h - b))),
                     VScale(plane.top_right, R(a * (h - b)))),
                VAdd(VScale(plane.bottom_left, R((w - a) * b)),
                     VScale(plane.bottom_right, R(a * b)))),
           Rat(1, w * h))

\* C6: calculate_pixel_ray sends pixel i to the ray from the camera to the bilinear
\* interpolation of the four corners at alpha = (i mod width) / width and
\* beta = (i div width) / height; pixel 0 lands exactly on the top-left corner, and
\* the last pixel lands at alpha = (width - 1) / width, beta = (height - 1) / height,
\* one pixel step short of the bottom-right corner in each direction.
C6_PixelRayInterpolatesCorners ==
    ray_index >= 0 =>
        LET w == camera.resolution.w
            h == camera.resolution.h
            plane == camera.image_plane
        IN  /\ pixel_ray = VSub(PlanePoint(plane, ray_index % w, w, ray_index \div w, h),
                                camera.pos)
            /\ ray_index = 0 => pixel_ray = VSub(plane.top_left, camera.pos)
            /\ ray_index = w * h - 1 =>
                  pixel_ray = VSub(PlanePoint(plane, w - 1, w, h - 1, h), camera.pos)

\* The ray of the last pixel of a frame with more than one row and more than one
\* column has been computed, for a camera whose image plane is finite.
C6_LastPixelOfFrame ==
    /\ camera.resolution.w > 1
    /\ camera.resolution.h > 1
    /\ ray_index = camera.resolution.w * camera.resolution.h - 1
    /\ IsFinite(pixel_ray.x) /\ IsFinite(pixel_ray.y) /\ IsFinite(pixel_ray.z)

\* C6 as stated: the last pixel interpolates to the bottom-right corner.
C6_LastPixelAtBottomRight ==
    (ray_index >= 0 /\ ray_index = camera.resolution.w * camera.resolution.h - 1) =>
        pixel_ray = VSub(camera.image_plane.bottom_right, camera.pos)

(***************************************************************************)
(* The field of view (CameraSpec).                                         *)
(***************************************************************************)
\* x lies in the open interval (lo, hi).
InsideOpen(x, lo, hi) == RLt(lo, x) /\ RLt(x, hi)

\* C10: Camera::new and set_field_of_view_horizontal_deg accept a FOV exactly when
\* it lies in (0, 180) degrees and set_field_of_view_horizontal exactly when it lies
\* in (0, pi) radians, every other value being rejected with InvalidFOV; a rejected
\* call leaves the camera unchanged and an accepted one stores the value it was
\* given, never a clamped one.
C10_FovValidated ==
    /\ cam_call.op \in {"new", "set_deg"} =>
          (cam_call.result = "Ok" <=> InsideOpen(cam_call.arg, R(0), R(180)))
    /\ cam_call.op = "set_rad" =>
          (cam_call.result = "Ok" <=> InsideOpen(cam_call.arg, R(0), PI))
    /\ cam_call.result = "InvalidFOV" => ~cam_call.changed
    /\ (cam_call.op \in {"new", "set_deg"} /\ cam_call.result = "Ok") =>
          camera.field_of_view_horizontal = RMul(cam_call.arg, DegToRad)
    /\ (cam_call.op = "set_rad" /\ cam_call.result = "Ok") =>
          camera.field_of_view_horizontal = cam_call.arg

(***************************************************************************)
(* The shading (ShadeSpec).                                                *)
(***************************************************************************)
\* (ambient + diffuse + specular) / 3 in integers, clamped to [0, 255].
ThirdOfSum(ambient, diffuse_c, specular_c) ==
    Min((ambient + diffuse_c + specular_c) \div 3, 255)

\* C9: each colour channel get_light_color returns is (ambient + the sum of the
\* diffuse contributions + the sum of the specular contributions) / 3 clamped to
\* [0, 255], and the alpha byte is 255.
C9_ChannelIsThirdOfSum ==
    shade_pc = "done" =>
        shade_out = RGBA8(ThirdOfSum(material.ambient_constant.r, diffuse.r, specular.r),
                          ThirdOfSum(material.ambient_constant.g, diffuse.g, specular.g),
                          ThirdOfSum(material.ambient_constant.b, diffuse.b, specular.b),
                          255)

\* C11: once Camera::new has built the camera, after every translate, look_at,
\* set_view_direction and FOV setter (accepted or rejected) the image plane is what
\* get_image_plane derives from the camera's position, view direction, FOV and
\* resolution.
\* Moreover a translate step adds its offset to the position and to each of the
\* four corners, and leaves the view direction, the FOV and the resolution alone.
C11_ImagePlaneIsDerived ==
    /\ [](cam_state = "built" => camera.image_plane = get_image_plane(camera))
    /\ [][(cam_call'.op = "translate" /\ cam_state = "built") =>
          LET by == cam_call'.arg
          IN  /\ camera'.pos = VAdd(camera.pos, by)
              /\ camera'.image_plane.top_left = VAdd(camera.image_plane.top_left, by)
              /\ camera'.image_plane.top_right = VAdd(camera.image_plane.top_right, by)
              /\ camera'.image_plane.bottom_right =
                     VAdd(camera.image_plane.bottom_right, by)
              /\ camera'.image_plane.bottom_left =
                     VAdd(camera.image_plane.bottom_left, by)
              /\ camera'.view_direction = camera.view_direction
              /\ camera'.field_of_view_horizontal = camera.field_of_view_horizontal
              /\ camera'.resolution = camera.resolution]_vars

\* The camera has been translated away from where Camera::new put it and its image
\* plane is finite.
C11_TranslatedCamera ==
    /\ cam_state = "built"
    /\ cam_call.op = "translate"
    /\ camera.pos.x # R(0)
    /\ IsFinite(camera.image_plane.top_left.x)
    /\ camera.image_plane.top_left # camera.image_plane.bottom_right

\* C12: a look_at(at) step has exactly the effect of set_view_direction(at - pos):
\* the view direction becomes normalize(at - pos), the image plane is derived anew,
\* and the position, the FOV and the resolution stay as they were.
C12_LookAtSetsDirection ==
    [][(cam_call'.op = "look_at" /\ cam_state = "built") =>
          LET direction == VSub(cam_call'.arg, camera.pos)
          IN  /\ camera' = set_view_direction(camera, direction)
              /\ camera'.view_direction = normalized(direction)
              /\ camera'.image_plane = get_image_plane(camera')
              /\ camera'.pos = camera.pos
              /\ camera'.field_of_view_horizontal = camera.field_of_view_horizontal
              /\ camera'.resolution = camera.resolution]_vars

\* look_at has turned the camera towards a target away from the camera.
C12_TurnedCamera ==
    /\ cam_state = "built"
    /\ cam_call.op = "look_at"
    /\ cam_call.changed
    /\ cam_call.arg # camera.pos
    /\ IsFinite(camera.view_direction.x)
    /\ IsFinite(camera.image_plane.top_left.x)

\* Every coordinate of v is finite.
FiniteVec(v) == IsFinite(v.x) /\ IsFinite(v.y) /\ IsFinite(v.z)

\* C19: no normalization divides by a zero length: whatever look_at,
\* set_view_direction and Camera::new are given, a camera with a finite FOV holds a
\* finite view direction and finite image-plane corners.
C19_NoNonFiniteVector ==
    (cam_state = "built" /\ IsFinite(camera.field_of_view_horizontal)) =>
        /\ FiniteVec(camera.view_direction)
        /\ FiniteVec(camera.image_plane.top_left)
        /\ FiniteVec(camera.image_plane.top_right)
        /\ FiniteVec(camera.image_plane.bottom_right)
        /\ FiniteVec(camera.image_plane.bottom_left)

(***************************************************************************)
(* The ray-sphere test (BallSpec).                                         *)
(***************************************************************************)
\* The larger of two numbers.
RMax(a, b) == IF RLt(a, b) THEN b ELSE a

\* Of the two roots, the smaller one if the range holds it, else the larger one if
\* the range holds that one, else none.
RootInRange(q, range) ==
    LET lo == RMin(RootPlus(q), RootMinus(q))
        hi == RMax(RootPlus(q), RootMinus(q))
    IN  IF contains(range, lo) THEN Some(lo)
        ELSE IF contains(range, hi) THEN Some(hi)
        ELSE None

\* The quadratic of ball number i of the world against the ray.
QuadraticOf(i) == Quadratic(world.balls[i], geo_origin, geo_direction)

\* C13: with a discriminant > 0, find_ray_ball_intersection returns the smaller
\* root if it is in the allowed range, else the larger root if that one is, else
\* None; get_nearest_intersecting_ball does the same with the range t >= 1 and
\* returns the ball whose root in range is smallest.
C13_RootInAllowedRange ==
    /\ (geo_call = "find_ray_ball_intersection" /\ RGt(QuadraticOf(1).d, R(0))) =>
          geo_result = RootInRange(QuadraticOf(1), t_allowed_range)
    /\ (/\ geo_call = "get_nearest_intersecting_ball"
        /\ \A i \in 1 .. Len(world.balls) : RGt(QuadraticOf(i).d, R(0))) =>
          LET hits == {RootInRange(QuadraticOf(i), LargerEqual(R(1))) :
                          i \in 1 .. Len(world.balls)} \ {None}
          IN  IF hits = {}
              THEN geo_result = None
              ELSE /\ geo_result.tag = "Some"
                   /\ Some(geo_result.val.t_min) \in hits
                   /\ \A h \in hits : RLe(geo_result.val.t_min, h.val)
                   /\ RootInRange(Quadratic(geo_result.val.ball, geo_origin,
                                            geo_direction),
                                  LargerEqual(R(1))) = Some(geo_result.val.t_min)

\* C14: with a discriminant = 0 the tangent parameter is t = -b / (2a), whatever
\* the length of the direction: find_ray_ball_intersection returns it when the
\* range holds it, and get_nearest_intersecting_ball on a single ball returns the
\* ball with the hit point origin + direction * t when t >= 1.
C14_TangentParameter ==
    (geo_call # "none" /\ Len(world.balls) = 1 /\ QuadraticOf(1).d = R(0)) =>
        LET q == QuadraticOf(1)
            t == RDiv(RNeg(q.b), RMul(R(2), q.a))
        IN  /\ geo_call = "find_ray_ball_intersection" =>
                  geo_result = IF contains(t_allowed_range, t) THEN Some(t) ELSE None
            /\ geo_call = "get_nearest_intersecting_ball" =>
                  geo_result =
                      IF RGe(t, R(1))
                      THEN Some([ball |-> world.balls[1],
                                 p |-> VAdd(geo_origin, VScale(geo_direction, t)),
                                 t_min |-> t])
                      ELSE None

\* The first triangle of the mesh loaded last, at the position of its mesh.
FirstTriangle == Placed(FacesIteratorNext(LastObject, 0).val, LastObject.pos)

\* The normal (v1 - v0) x (v2 - v0) of the triangle v, not normalized.
NormalOf(v) == cross_product(VSub(v[2], v[1]), VSub(v[3], v[1]))

\* The parameter at which the ray from o along d meets the plane of the triangle v.
PlaneParameterOf(v, o, d) ==
    RDiv(VDot(NormalOf(v), VSub(v[1], o)), VDot(NormalOf(v), d))

\* n . d for the normal n of the first triangle and the normalized direction d of
\* the ray.
NormalDotDirection == VDot(NormalOf(FirstTriangle), normalized(geo_direction))

\* The parameter at which the normalized ray meets the plane of the first triangle.
PlaneParameter == PlaneParameterOf(FirstTriangle, geo_origin, normalized(geo_direction))

\* The point p = v0 + b1 * (v1 - v0) + b2 * (v2 - v0) of the plane lies in the
\* triangle or on its border: b1 >= 0, b2 >= 0 and b1 + b2 <= 1.
InTriangle(v, p) ==
    LET e1 == VSub(v[2], v[1])
        e2 == VSub(v[3], v[1])
        w == VSub(p, v[1])
        den == RSub(RMul(VDot(e1, e1), VDot(e2, e2)), RMul(VDot(e1, e2), VDot(e1, e2)))
        b1 == RDiv(RSub(RMul(VDot(e2, e2), VDot(w, e1)), RMul(VDot(e1, e2), VDot(w, e2))),
                   den)
        b2 == RDiv(RSub(RMul(VDot(e1, e1), VDot(w, e2)), RMul(VDot(e1, e2), VDot(w, e1))),
                   den)
    IN  RGe(b1, R(0)) /\ RGe(b2, R(0)) /\ RLe(RAdd(b1, b2), R(1))

\* The ray meets the first triangle at a parameter of the range.
HitsFirstTriangle ==
    /\ contains(t_allowed_range, PlaneParameter)
    /\ InTriangle(FirstTriangle,
                  VAdd(geo_origin, VScale(normalized(geo_direction), PlaneParameter)))

\* find_ray_triangle_intersection was called on a mesh whose first face is sound.
TriangleTested ==
    /\ geo_call = "find_ray_triangle_intersection"
    /\ FacesIteratorNext(LastObject, 0).tag = "Some"

\* The triangle (0,0,0), (2,0,0), (0,2,0) in either winding.
IsExampleTriangle ==
    /\ LastObject.pos = ivec3(0, 0, 0)
    /\ LastObject.vertices = ExampleVertices
    /\ LastObject.faces[1] \in {<<0, 1, 2>>, <<0, 2, 1>>}

\* What find_ray_triangle_intersection does: it returns Some(t), with t the
\* parameter of the plane hit along the normalized direction, exactly when
\* |n . d| >= 0.001 for the normal n as the cross product gives it (its length is
\* twice the area of the triangle), t is in the range and the hit point is in the
\* triangle or on its border, whichever the winding; on the triangle (0,0,0),
\* (2,0,0), (0,2,0) the ray from (0.5,0.5,5) toward -z hits at t = 5 and the ray
\* from (3,3,5) toward -z misses.
TriangleHitWhenDotAboveEpsilon ==
    TriangleTested =>
        /\ geo_result =
              IF /\ ~RLt(RAbs(NormalDotDirection), Rat(1, 1000))
                 /\ HitsFirstTriangle
              THEN Some(PlaneParameter)
              ELSE None
        /\ (/\ IsExampleTriangle
            /\ geo_direction \in {ivec3(0, 0, -1), ivec3(0, 0, -2)}
            /\ contains(t_allowed_range, R(5))) =>
               /\ geo_origin = vec3(Rat(1, 2), Rat(1, 2), R(5)) => geo_result = Some(R(5))
               /\ geo_origin = ivec3(3, 3, 5) => geo_result = None

\* The ray from (0.5,0.5,5) toward -z was tested against the example triangle in
\* the reversed winding and hit it at t = 5.
ExampleRayHitsAtFive ==
    /\ TriangleTested
    /\ IsExampleTriangle
    /\ LastObject.faces[1] = <<0, 2, 1>>
    /\ geo_origin = vec3(Rat(1, 2), Rat(1, 2), R(5))
    /\ geo_direction = ivec3(0, 0, -2)
    /\ geo_result = Some(R(5))

\* C20: find_ray_triangle_intersection returns Some(t) exactly when the ray is not
\* parallel to the plane (n . d # 0), t is in the range and the hit point is in the
\* triangle or on its border, for either winding.
C20_TriangleHitWhenNotParallel ==
    TriangleTested =>
        geo_result =
            IF NormalDotDirection # R(0) /\ HitsFirstTriangle
            THEN Some(PlaneParameter)
            ELSE None

\* Every face index of the mesh names one of its vertices.
IndicesInRange(object) ==
    \A k \in 1 .. Len(object.faces) :
        \A j \in 1 .. 3 : object.faces[k][j] < Len(object.vertices)

\* C18: face indices are validated when a mesh is loaded: no mesh with an
\* out-of-range face index is ever in the world, and the ray-triangle routines never
\* panic on a face.
C18_FaceIndicesValidated ==
    /\ \A i \in 1 .. Len(world.vertex_objects) : IndicesInRange(world.vertex_objects[i])
    /\ geo_call \in {"find_ray_triangle_intersection", "get_nearest_intersecting_triangle"}
           => geo_result # Panic

\* Rendering reached a face whose index is out of range.
C18_PanicOnFace ==
    /\ geo_call = "get_nearest_intersecting_triangle"
    /\ geo_result = Panic

\* The parameters, along the vector to the light (the light is at 1), that count
\* for a shadow: above the epsilon 0.0001 of the code, taken as a distance, and
\* below the light.
BeforeLight(s) ==
    /\ RGt(RMul(s, VLen(geo_direction)), Rat(1, 10000))
    /\ RLt(s, R(1))

\* The sphere meets the ray to the light at a parameter that counts.
BallBeforeLight(ball) ==
    LET q == Quadratic(ball, geo_origin, geo_direction)
    IN  /\ RGe(q.d, R(0))
        /\ BeforeLight(RootMinus(q)) \/ BeforeLight(RootPlus(q))

\* The triangle meets the ray to the light at a parameter that counts.
TriangleBeforeLight(v) ==
    /\ VDot(NormalOf(v), geo_direction) # R(0)
    /\ BeforeLight(PlaneParameterOf(v, geo_origin, geo_direction))
    /\ InTriangle(v, VAdd(geo_origin,
                          VScale(geo_direction,
                                 PlaneParameterOf(v, geo_origin, geo_direction))))

\* The triangles of the sound meshes of the world, each at the position of its mesh.
WorldTriangles ==
    UNION {{Placed(FacesIteratorNext(world.vertex_objects[i], k - 1).val,
                   world.vertex_objects[i].pos) :
               k \in 1 .. Len(world.vertex_objects[i].faces)} :
           i \in {j \in 1 .. Len(world.vertex_objects) :
                     IndicesInRange(world.vertex_objects[j])}}

\* C15: is_in_shadow answers true exactly when a sphere or a triangle meets the ray
\* to the light strictly between the small epsilon and the light's position:
\* an occluder at or beyond the light never shadows the point.
C15_ShadowOnlyBeforeLight ==
    (geo_call = "is_in_shadow" /\ geo_result # Panic) =>
        geo_result.val =
            \/ \E i \in 1 .. Len(world.balls) : BallBeforeLight(world.balls[i])
            \/ \E v \in WorldTriangles : TriangleBeforeLight(v)

\* A point was found in shadow with nothing in the world but one sphere, whose
\* nearest point is beyond the light.
C15_ShadowedFromBeyondLight ==
    /\ geo_call = "is_in_shadow"
    /\ geo_result = Returned(TRUE)
    /\ world.vertex_objects = <<>>
    /\ Len(world.balls) = 1
    /\ RGt(RootMinus(Quadratic(world.balls[1], geo_origin, geo_direction)), R(1))

\* The two candidates of the pixel that was rendered.
BallCandidate == get_nearest_intersecting_ball(world.balls, camera.pos, pixel_ray)

TriangleCandidate ==
    get_nearest_intersecting_triangle(world.vertex_objects, camera.pos, pixel_ray)

\* The square of the distance from the camera to p.
DistanceSquared(p) == LenTimesLen(VSub(camera.pos, p))

\* The colour get_light_color gives the ball candidate and the triangle candidate.
BallColor ==
    get_light_color(BallCandidate.val.ball, world, camera, BallCandidate.val.p,
                    VSub(BallCandidate.val.p, BallCandidate.val.ball.pos)).val

TriangleColor ==
    get_light_color(TriangleCandidate.val.object, world, camera, TriangleCandidate.val.p,
                    get_triangle_normal(TriangleCandidate.val.face)).val

\* C16: render_pixel shades the candidate at the smaller distance from the camera
\* when there is a sphere and a triangle candidate, the sphere on a tie; the only
\* candidate when there is one; and gives the background colour of the world when
\* there is none; the grayscale filter is applied to the colour after that.
C16_NearerCandidateShaded ==
    geo_call = "render_pixel" =>
        /\ geo_result.tag = "Returned"
        /\ geo_result.val.shaded =
              IF BallCandidate # None /\ TriangleCandidate # None
              THEN IF \/ RLt(DistanceSquared(BallCandidate.val.p),
                             DistanceSquared(TriangleCandidate.val.p))
                      \/ DistanceSquared(BallCandidate.val.p)
                             = DistanceSquared(TriangleCandidate.val.p)
                   THEN "ball"
                   ELSE "triangle"
              ELSE IF BallCandidate # None THEN "ball"
              ELSE IF TriangleCandidate # None THEN "triangle"
              ELSE "background"
        /\ geo_result.val.rgba =
              apply_filters(filter_gray,
                            CASE geo_result.val.shaded = "ball" -> BallColor
                              [] geo_result.val.shaded = "triangle" -> TriangleColor
                              [] geo_result.val.shaded = "background" -> world.color)

\* A pixel was rendered whose sphere and triangle candidates are at the same
\* point, and the sphere was shaded.
C16_TieShadedAsSphere ==
    /\ geo_call = "render_pixel"
    /\ BallCandidate # None
    /\ TriangleCandidate # None
    /\ BallCandidate.val.p = TriangleCandidate.val.p
    /\ geo_result.val.shaded = "ball"
    /\ geo_result.val.rgba # apply_filters(filter_gray, TriangleColor)

\* Some point of the segment from p to q is inside the sphere, and neither end is.
SphereOnSegment(ball, p, q) ==
    LET pq == VSub(q, p)
        along == RDiv(VDot(VSub(ball.pos, p), pq), LenTimesLen(pq))
        s == RMax(R(0), RMin(R(1), along))
        nearest == VAdd(p, VScale(pq, s))
        rr == RMul(ball.rad, ball.rad)
    IN  /\ RLt(LenTimesLen(VSub(nearest, ball.pos)), rr)
        /\ RGt(LenTimesLen(VSub(p, ball.pos)), rr)
        /\ RGt(LenTimesLen(VSub(q, ball.pos)), rr)

\* The segment from p to q crosses the triangle v strictly between its ends.
TriangleOnSegment(v, p, q) ==
    LET pq == VSub(q, p)
        s == PlaneParameterOf(v, p, pq)
    IN  /\ VDot(NormalOf(v), pq) # R(0)
        /\ RGt(s, R(0)) /\ RLt(s, R(1))
        /\ InTriangle(v, VAdd(p, VScale(pq, s)))

\* The outward normal at the point that was shaded: from the centre of the sphere,
\* or the normal of the triangle.
ShadedNormal ==
    IF geo_result.val.shaded = "ball"
    THEN VSub(geo_result.val.p, geo_result.val.object.pos)
    ELSE get_triangle_normal(TriangleCandidate.val.face)

\* C17: for a shaded point and the one light of the world, a sphere on the segment
\* from the point to the light leaves the light's diffuse and specular contribution
\* at zero; with nothing on the segment and the surface facing the light (N . L > 0
\* for L from the point to the light) the diffuse contribution is positive.
C17_ShadowRayFromHitPoint ==
    (/\ geo_call = "render_pixel"
     /\ geo_result.val.shaded \in {"ball", "triangle"}
     /\ Len(world.lights) = 1) =>
        LET p == geo_result.val.p
            light_pos == world.lights[1].pos
            sphere_between ==
                \E i \in 1 .. Len(world.balls) :
                    SphereOnSegment(world.balls[i], p, light_pos)
            triangle_between ==
                \E v \in WorldTriangles : TriangleOnSegment(v, p, light_pos)
        IN  /\ sphere_between => geo_result.val.sums = NoLight
            /\ (/\ ~sphere_between
                /\ ~triangle_between
                /\ RGt(VDot(ShadedNormal, VSub(light_pos, p)), R(0))) =>
                   geo_result.val.sums.diffuse.r > 0

\* A point of a sphere was shaded with light from a light while another sphere
\* was on the segment from the point to that light.
C17_LitBehindOccluder ==
    /\ geo_call = "render_pixel"
    /\ geo_result.val.shaded = "ball"
    /\ Len(world.lights) = 1
    /\ \E i \in 1 .. Len(world.balls) :
          SphereOnSegment(world.balls[i], geo_result.val.p, world.lights[1].pos)
    /\ geo_result.val.sums.diffuse.r > 0

(***************************************************************************)
(* The shape of the image plane (CameraSpec).                              *)
(***************************************************************************)
\* The camera holds a FOV inside (0, pi) and a view direction of length 1.
ValidCamera ==
    /\ cam_state = "built"
    /\ InsideOpen(camera.field_of_view_horizontal, R(0), PI)
    /\ LenTimesLen(camera.view_direction) = R(1)

\* C21: for a valid FOV and a unit view direction the four corners of the image
\* plane are symmetric about the view axis (the middle of each diagonal is
\* position + view direction), the top edge is 2 * tan(fov / 2) long, and the top
\* edge is to the left edge as the width of the resolution is to its height.
C21_ImagePlaneShape ==
    ValidCamera =>
        LET plane == camera.image_plane
            centre == VAdd(camera.pos, camera.view_direction)
            horizontal == VSub(plane.top_right, plane.top_left)
            vertical == VSub(plane.top_left, plane.bottom_left)
            tan == TanHalf(camera.field_of_view_horizontal)
        IN  /\ VScale(VAdd(plane.top_left, plane.bottom_right), Rat(1, 2)) = centre
            /\ VScale(VAdd(plane.top_right, plane.bottom_left), Rat(1, 2)) = centre
            /\ LenTimesLen(horizontal) = RMul(R(4), RMul(tan, tan))
            /\ RMul(LenTimesLen(horizontal), R(camera.resolution.h * camera.resolution.h))
                   = RMul(LenTimesLen(vertical),
                          R(camera.resolution.w * camera.resolution.w))
            /\ VSub(plane.bottom_right, plane.bottom_left) = horizontal

\* A camera with a 4:3 frame and a FOV other than 90 degrees looks along a
\* direction off every axis.
C21_SlantedWideCamera ==
    /\ ValidCamera
    /\ camera.resolution = [w |-> 4, h |-> 3]
    /\ camera.field_of_view_horizontal # Rat(1, 2)
    /\ camera.view_direction.x # R(0)
    /\ camera.view_direction.y # R(0)
    /\ camera.view_direction.z # R(0)

(***************************************************************************)
(* What a frame depends on (Spec, FairSpec).                               *)
(***************************************************************************)
\* C22: render_world keeps nothing between frames and changes neither the camera
\* nor the world: when a call has ended, under whichever strategy and whatever the
\* buffer held before, the buffer is the one the scene, the camera and the settings
\* determine, and no step of a call changes the camera, the world or the settings.
C22_FrameDependsOnInputsOnly ==
    /\ [](CallEnded =>
            \A k \in DOMAIN frame_buffer :
                frame_buffer[k] = render_pixel(k \div 4, grayscale, resolution)[(k % 4) + 1])
    /\ [][(pc # "idle" \/ pc' # "idle") =>
            UNCHANGED <<camera, world, multithreading_method, grayscale, resolution>>]_vars

\* A call has ended and the buffer still holds the frame of an earlier call, made
\* with the grayscale switch the other way.
C22_OldFrameLeftInBuffer ==
    /\ pc = "panicked"
    /\ grayscale
    /\ \A k \in DOMAIN frame_buffer :
          frame_buffer[k] = render_pixel(k \div 4, FALSE, resolution)[(k % 4) + 1]
    /\ frame_buffer # SequentialBuffer

(***************************************************************************)
(* The M key (Spec).                                                       *)
(***************************************************************************)
\* C26: the multithreading method changes only between frames, by one step along
\* None -> Crossbeam -> Rayon -> None, and the step leaves grayscale alone; three
\* steps bring every method back to itself and pass through the other two.
C26_MethodCycle ==
    /\ [](\A m \in Methods :
            /\ NextMethod(NextMethod(NextMethod(m))) = m
            /\ {m, NextMethod(m), NextMethod(NextMethod(m))} = Methods)
    /\ [][multithreading_method' # multithreading_method =>
            /\ pc = "idle" /\ pc' = "idle"
            /\ grayscale' = grayscale
            /\ frame_buffer' = frame_buffer
            /\ \/ multithreading_method = "None" /\ multithreading_method' = "Crossbeam"
               \/ multithreading_method = "Crossbeam" /\ multithreading_method' = "Rayon"
               \/ multithreading_method = "Rayon" /\ multithreading_method' = "None"]_vars

\* M was pressed twice after G, starting from Rayon, and the buffer holds the
\* grayscale frame drawn in between.
C26_TwoPressesFromRayon ==
    /\ pc = "idle"
    /\ multithreading_method = "Crossbeam"
    /\ grayscale
    /\ frame_buffer = SequentialBuffer

(***************************************************************************)
(* The FOV keys (KeySpec).                                                 *)
(***************************************************************************)
FovDeg == get_field_of_view_horizontal_deg(camera)

\* C25: pressed on a camera with a valid FOV, Minus and Equals keep the FOV strictly
\* between 0 and 180 degrees and the setter's unwrap() never panics; Minus takes one
\* degree off exactly when the FOV is above 1, Equals adds one exactly when it is
\* below 179, and otherwise the camera stays as it is.
C25_FovKeysStayInRange ==
    /\ [](/\ cam_state # "panicked"
          /\ cam_call.result # "InvalidFOV"
          /\ RGt(FovDeg, R(0)) /\ RLt(FovDeg, R(180))
          /\ InsideOpen(camera.field_of_view_horizontal, R(0), PI))
    /\ [][/\ cam_call'.op = "minus" =>
                IF RGt(FovDeg, R(1))
                THEN FovDeg' = RSub(FovDeg, R(1)) /\ cam_call'.result = "Ok"
                ELSE camera' = camera
          /\ cam_call'.op = "equals" =>
                IF RLt(FovDeg, R(179))
                THEN FovDeg' = RAdd(FovDeg, R(1)) /\ cam_call'.result = "Ok"
                ELSE camera' = camera]_vars

\* Minus was pressed at exactly one degree and left the camera alone.
C25_KeyAtThreshold ==
    /\ cam_call.op = "minus" /\ cam_call.arg = R(1) /\ cam_call.result = "Skipped"
    /\ FovDeg = R(1)
    /\ camera.image_plane = get_image_plane(camera)

(***************************************************************************)
(* The faces of a mesh, one by one (IterSpec).                             *)
(***************************************************************************)
\* The mesh of the world the iterator was made from.
IteratedMeshes ==
    {k \in 1 .. Len(world.vertex_objects) :
        /\ world.vertex_objects[k].vertices = faces_iterator.val.vertices
        /\ world.vertex_objects[k].faces = faces_iterator.val.face_indices}

\* Face k (from 1) of the mesh has its three indices below vertices.len().
FaceInRange(object, k) == \A j \in 1 .. 3 : object.faces[k][j] < Len(object.vertices)

\* C27: an iterator made by iter_faces starts at face 0 and yields the faces in
\* order, the k-th as (vertices[a], vertices[b], vertices[c]) for the k-th index
\* triple (a, b, c); after faces.len() triangles every next() returns None; a face
\* with an index >= vertices.len() makes next() panic; the mesh is never changed.
C27_FacesInOrderThenNone ==
    /\ [](faces_iterator # None =>
            \E m \in IteratedMeshes :
                LET object == world.vertex_objects[m]
                    index == faces_iterator.val.index
                    n == Len(object.faces)
                IN  /\ index <= n
                    /\ Len(next_results) >= index
                    /\ \A k \in 1 .. Len(next_results) :
                          IF k <= index
                          THEN /\ FaceInRange(object, k)
                               /\ next_results[k] =
                                     Some(<<object.vertices[object.faces[k][1] + 1],
                                            object.vertices[object.faces[k][2] + 1],
                                            object.vertices[object.faces[k][3] + 1]>>)
                          ELSE IF index = n
                          THEN next_results[k] = None
                          ELSE /\ k = index + 1
                               /\ ~FaceInRange(object, k)
                               /\ next_results[k] = Panic)
    /\ [][world' = world]_vars
    /\ [][faces_iterator # None /\ geo_call' = "iter_faces" =>
            faces_iterator'.val.index = 0 /\ next_results' = <<>>]_vars

\* An iterator over the three-face mesh has yielded all three faces and then None
\* twice.
C27_ThreeFacesThenNoneTwice ==
    /\ faces_iterator # None
    /\ faces_iterator.val.index = 3
    /\ Len(next_results) = 5
    /\ next_results[4] = None /\ next_results[5] = None
    /\ next_results[1] = Some(<<ivec3(1, 1, 0), ivec3(1, 1, 0), ivec3(0, 0, 0)>>)

\* next() has panicked on the second face of a mesh after yielding the first.
NextPanickedOnSecondFace ==
    /\ geo_call = "panicked"
    /\ Len(next_results) = 2
    /\ next_results[1].tag = "Some"
    /\ next_results[2] = Panic

(***************************************************************************)
(* The nearest primitive along a primary ray (BallSpec, TriangleSpec).     *)
(***************************************************************************)
\* The parameters at which the ray meets ball number i: the roots of
\* a t^2 + b t + c = 0.
MeetsBallAt(i) ==
    LET q == QuadraticOf(i)
    IN  IF RLt(q.d, R(0)) THEN {}
        ELSE IF q.d = R(0) THEN {RDiv(RNeg(q.b), RMul(R(2), q.a))}
        ELSE {RootPlus(q), RootMinus(q)}

\* The least of a set of parameters that is not empty.
LeastOf(ts) == CHOOSE t \in ts : \A u \in ts : RLe(t, u)

\* The valid hits of ball number i: the parameters t >= 1 at which the ray meets it.
ValidBallHits(i) == {t \in MeetsBallAt(i) : RGe(t, R(1))}

\* The sound faces of the world in iteration order, as <<object number, face number>>.
FacesInOrder ==
    {<<i, k>> \in (1 .. Len(world.vertex_objects)) \X (1 .. 3) :
        /\ k <= Len(world.vertex_objects[i].faces)
        /\ IndicesInRange(world.vertex_objects[i])}

\* Face f of the world, placed at the position of its object.
PlacedFace(f) ==
    Placed(FacesIteratorNext(world.vertex_objects[f[1]], f[2] - 1).val,
           world.vertex_objects[f[1]].pos)

\* The valid hits of face f: the parameter t >= 1 at which the ray meets the plane
\* of the face, if the point there lies in the face.
ValidFaceHits(f) ==
    IF VDot(NormalOf(PlacedFace(f)), geo_direction) = R(0) THEN {}
    ELSE {t \in {PlaneParameterOf(PlacedFace(f), geo_origin, geo_direction)} :
             /\ RGe(t, R(1))
             /\ InTriangle(PlacedFace(f), VAdd(geo_origin, VScale(geo_direction, t)))}

\* Face f comes before face g in iteration order, or is g.
FaceBefore(f, g) == f[1] < g[1] \/ (f[1] = g[1] /\ f[2] <= g[2])

\* C24: for a primary ray, get_nearest_intersecting_ball and
\* get_nearest_intersecting_triangle return the primitive with the least valid
\* parameter t >= 1, the first in iteration order among equals, with the point at
\* that parameter, and None exactly when no primitive has a valid hit.
C24_NearestValidHit ==
    /\ geo_call = "get_nearest_intersecting_ball" =>
          LET balls == 1 .. Len(world.balls)
              hits == UNION {ValidBallHits(i) : i \in balls}
          IN  IF hits = {}
              THEN geo_result = None
              ELSE LET t == LeastOf(hits)
                       first == CHOOSE i \in balls :
                                   /\ t \in ValidBallHits(i)
                                   /\ \A j \in balls : t \in ValidBallHits(j) => i <= j
                   IN  geo_result = Some([ball |-> world.balls[first],
                                          p |-> VAdd(geo_origin, VScale(geo_direction, t)),
                                          t_min |-> t])
    /\ (geo_call = "get_nearest_intersecting_triangle" /\ geo_result # Panic) =>
          LET hits == UNION {ValidFaceHits(f) : f \in FacesInOrder}
          IN  IF hits = {}
              THEN geo_result = None
              ELSE LET t == LeastOf(hits)
                       first == CHOOSE f \in FacesInOrder :
                                   /\ t \in ValidFaceHits(f)
                                   /\ \A g \in FacesInOrder :
                                         t \in ValidFaceHits(g) => FaceBefore(f, g)
                   IN  geo_result =
                          Some([object |-> world.vertex_objects[first[1]],
                                face |-> FacesIteratorNext(world.vertex_objects[first[1]],
                                                           first[2] - 1).val,
                                p |-> VAdd(geo_origin, VScale(geo_direction, t))])

\* get_nearest_intersecting_ball returned None for a ray that leaves a ball from the
\* inside at a parameter >= 1.
C24_BallLeftFromInsideSkipped ==
    /\ geo_call = "get_nearest_intersecting_ball"
    /\ geo_result = None
    /\ \E i \in 1 .. Len(world.balls) :
          /\ ValidBallHits(i) # {}
          /\ \E t \in MeetsBallAt(i) : RLt(t, R(1))

============================================================================
